---- MODULE Spec2Model ----
(***************************************************************************)
(* A model of src/src/web_voice.js: the RecordTranscribe session state     *)
(* machine, the MediaRecorder polyfill that feeds it and the pcm_s16le     *)
(* encoder worker behind the recorder.                                     *)
(*                                                                         *)
(* Every handler of the source is one action.  JavaScript runs handlers to *)
(* completion on one thread, so an action is atomic.  User callbacks are   *)
(* always the last statement of the handler that invokes them, so a call   *)
(* that a callback makes back into the API is the same as that call made   *)
(* right after the handler; callbacks are therefore modelled by counting   *)
(* their invocations.                                                      *)
(***************************************************************************)
EXTENDS Integers, Sequences, FiniteSets, TLC

(***************************************************************************)
(* Bounds of the model.                                                    *)
(***************************************************************************)
\* number of RecordTranscribe objects constructed
NumSessions == 2
\* the chunks a worker buffers between two dumps
MaxChunks == 3
\* the largest maxOutputSize of a dump
MaxDumpSize == 12
\* the messages a transport delivers when the claim is about their sequence
MaxMerges == 3
\* blocks the audio callback delivers to a recorder on its own, ticks of its
\* dump timer, and calls of its start() that succeed
MaxBlocks == 2
MaxTicks == 2
MaxStarts == 2
\* timer dumps issued per recorder under Spec
MaxFrames == 1
\* timer dumps issued per recorder under SpecQueue
MaxFramesQueue == 102
\* chunks the encoder worker buffers before the next dump
MaxBuffered == 1
\* commands the main thread has posted and the worker has not yet processed
MaxCmdQ == 1
\* events the worker has posted and the main thread has not yet dispatched
MaxOutQ == 1
\* transport messages delivered to one session
MaxMessages == 1

(***************************************************************************)
(* Program constants.                                                      *)
(***************************************************************************)
\* web_voice.js:6
RecorderTimeSlice_ms == 120
\* web_voice.js:7
MaxOutputSize_B == 60000
\* web_voice.js:376, the capacity of _queuedMessages
MaxQueuedMessages == 100
\* web_voice.js:809, samples per onaudioprocess block
ScriptProcessorSize == 2048
\* web_voice.js:623, bytes per encoded sample
BytesPerSample == 2
\* web_voice.js:455, the normal-closure code
NormalClosure == 1000

Sessions == 1 .. NumSessions

\* web_voice.js:10-21
State ==
  [ Init |-> "Init",
    RequestingMedia |-> "RequestingMedia",
    OpeningWebSocket |-> "OpeningWebSocket",
    Running |-> "Running",
    FinishingRecording |-> "FinishingRecording",
    FinishingProcessing |-> "FinishingProcessing",
    FinishingEarly |-> "FinishingEarly",
    Finished |-> "Finished",
    Error |-> "Error",
    Canceled |-> "Canceled" ]

States == { State[k] : k \in DOMAIN State }

\* web_voice.js:36-43
isInactiveState(st) ==
  \/ st = State.Init
  \/ st = State.Finished
  \/ st = State.Error
  \/ st = State.Canceled

\* web_voice.js:45-52
isWebSocketState(st) ==
  \/ st = State.OpeningWebSocket
  \/ st = State.Running
  \/ st = State.FinishingRecording
  \/ st = State.FinishingProcessing

VARIABLES
  recordTranscribeActive, \* the module-level flag, web_voice.js:96
  state,                  \* this._state
  config,                 \* the fields the setters assign
  usageError,             \* the exception the step just taken threw, or "none"
  gum,                    \* the getUserMedia promise of start()
  tracks,                 \* the tracks of the MediaStream the promise grants
  stream,                 \* this._stream
  mediaRecorder,          \* this._mediaRecorder
  webSocket,              \* this._webSocket
  queuedMessages,         \* this._queuedMessages
  result,                 \* this._result
  early,                  \* the microtask stop() queues for _completeFinishingEarly
  recorder,               \* the MediaRecorder object and its encoder worker
  socket,                 \* the WebSocket object
  calls,                  \* invocations of each user callback
  errorArgs,              \* the arguments of the last _handleError
  dropped                 \* frames refused by the full _queuedMessages

vars ==
  << recordTranscribeActive, state, config, usageError, gum, tracks, stream,
     mediaRecorder, webSocket, queuedMessages, result, early, recorder, socket,
     calls, errorArgs, dropped >>

(***************************************************************************)
(* Strings.  A string the program computes on is a sequence of one-        *)
(* character strings; a string literal of the source that is only passed   *)
(* on is a sequence of one token.                                          *)
(***************************************************************************)
Letters ==
  { "a", "b", "c", "d", "e", "f", "g", "h", "i", "j", "k", "l", "m",
    "n", "o", "p", "q", "r", "s", "t", "u", "v", "w", "x", "y", "z",
    "A", "B", "C", "D", "E", "F", "G", "H", "I", "J", "K", "L", "M",
    "N", "O", "P", "Q", "R", "S", "T", "U", "V", "W", "X", "Y", "Z" }

Digits == { "0", "1", "2", "3", "4", "5", "6", "7", "8", "9" }

\* the class [a-zA-Z0-9_\-] of StatusMessageRegex
TagChars == Letters \cup Digits \cup { "_", "-" }

\* the characters `.` does not match
LineTerminators == { "\n", "\r" }

DigitOf(d) ==
  CASE d = 0 -> "0" [] d = 1 -> "1" [] d = 2 -> "2" [] d = 3 -> "3"
    [] d = 4 -> "4" [] d = 5 -> "5" [] d = 6 -> "6" [] d = 7 -> "7"
    [] d = 8 -> "8" [] d = 9 -> "9"

RECURSIVE NumberToString(_)
\* the string conversion of `"code=" + event.code` for a code >= 0
NumberToString(n) ==
  IF n < 10 THEN << DigitOf(n) >>
  ELSE NumberToString(n \div 10) \o << DigitOf(n % 10) >>

\* str without its first n characters
Drop(str, n) == SubSeq(str, n + 1, Len(str))

RECURSIVE RunLength(_, _)
\* the length of the longest prefix of str made of characters of class
RunLength(str, class) ==
  IF str # << >> /\ Head(str) \in class
  THEN 1 + RunLength(Tail(str), class)
  ELSE 0

\* StatusMessageRegex.exec(reason), web_voice.js:8:
\*   ^<([a-zA-Z0-9_\-]+)> *(([^ ]|$).*)$
\* matched is FALSE for a null result, else status is group 1 and message
\* group 2.
StatusMessageExec(reason) ==
  LET noMatch == [ matched |-> FALSE, status |-> << >>, message |-> << >> ]
  IN
  IF reason = << >> \/ Head(reason) # "<" THEN noMatch
  ELSE
    LET afterLt == Tail(reason)
        tagLen == RunLength(afterLt, TagChars)
        afterTag == Drop(afterLt, tagLen)
    IN
    IF tagLen = 0 \/ afterTag = << >> \/ Head(afterTag) # ">" THEN noMatch
    ELSE
      LET afterGt == Tail(afterTag)
          rest == Drop(afterGt, RunLength(afterGt, { " " }))
      IN
      \* ([^ ]|$) takes the end of the input or any one character but a
      \* space; .* then has to reach the end without a line terminator
      IF rest # << >>
           /\ \E i \in 2 .. Len(rest) : rest[i] \in LineTerminators
      THEN noMatch
      ELSE [ matched |-> TRUE,
             status |-> SubSeq(afterLt, 1, tagLen),
             message |-> rest ]

(***************************************************************************)
(* Configuration.  Every setter of the source has the same shape; the      *)
(* model keeps the credential, one option of the handshake and the four    *)
(* callbacks (TRUE when a function is registered).                         *)
(***************************************************************************)
NullKey == "null"

\* the constructor, web_voice.js:104-130
DefaultConfig ==
  [ apiKey |-> NullKey,
    includeNonFinal |-> "false",
    onStarted |-> "null",
    onPartialResult |-> "null",
    onFinished |-> "null",
    onError |-> "null",
    webSocketUri |-> "valid" ]

\* the values a caller passes to the setter of each field
SetterValues(f) ==
  CASE f = "apiKey" -> { "key" }
    [] f = "includeNonFinal" -> { "true" }
    \* a string that new WebSocket() accepts, or one for which it throws
    [] f = "webSocketUri" -> { "valid", "invalid" }
    [] OTHER -> { "function" }

\* the message each setter throws outside Init, web_voice.js:133-264
SetterError(f) ==
  CASE f = "apiKey" -> "setApiKey() may only be called before start()"
    [] f = "includeNonFinal" ->
         "setIncludeNonFinal() may only be called before start()"
    [] f = "onStarted" -> "setOnStarted() may only be called before start()"
    [] f = "onPartialResult" ->
         "setOnPartialResult() may only be called before start()"
    [] f = "onFinished" -> "setOnFinished() may only be called before start()"
    [] f = "onError" -> "setOnError() may only be called before start()"
    [] f = "webSocketUri" ->
         "setWebSocketUri() may only be called before start()"

(***************************************************************************)
(* Results, web_voice.js:54-94.                                            *)
(***************************************************************************)
\* web_voice.js:54-62
wordFromJson(jsWord, isFinal) ==
  [ text |-> jsWord.t,
    start_ms |-> jsWord.s,
    duration_ms |-> jsWord.d,
    speaker |-> jsWord.spk,
    is_final |-> isFinal ]

RECURSIVE speakersFromJson(_)
\* the Map built by web_voice.js:72-77: a later entry replaces an earlier
\* one with the same key
speakersFromJson(spks) ==
  IF spks = << >> THEN << >>
  ELSE
    LET before == speakersFromJson(SubSeq(spks, 1, Len(spks) - 1))
        last == spks[Len(spks)]
    IN [ k \in DOMAIN before \cup { last.spk } |->
           IF k = last.spk THEN [ speaker |-> last.spk, name |-> last.nm ]
           ELSE before[k] ]

\* web_voice.js:64-85
resultFromResponse(response) ==
  [ words |->
      [ i \in 1 .. Len(response.fw) |-> wordFromJson(response.fw[i], TRUE) ]
      \o [ i \in 1 .. Len(response.nfw) |-> wordFromJson(response.nfw[i], FALSE) ],
    final_proc_time_ms |-> response.fpt,
    total_proc_time_ms |-> response.tpt,
    speakers |->
      IF response.hasSpks THEN speakersFromJson(response.spks) ELSE << >> ]

\* web_voice.js:87-94
initialResult ==
  [ words |-> << >>,
    final_proc_time_ms |-> 0,
    total_proc_time_ms |-> 0,
    speakers |-> << >> ]

\* a loop of _updateResult that pops every word
popEveryWord(words) == << >>

RECURSIVE popNonFinal(_)
\* the while loop of _updateResult, web_voice.js:573-575
popNonFinal(words) ==
  IF Len(words) > 0 /\ ~words[Len(words)].is_final
  THEN popNonFinal(SubSeq(words, 1, Len(words) - 1))
  ELSE words

\* _updateResult that keeps the speakers when the message names none
updateResultKeepsSpeakers(res, newResult) ==
  [ words |-> popNonFinal(res.words) \o newResult.words,
    final_proc_time_ms |-> newResult.final_proc_time_ms,
    total_proc_time_ms |-> newResult.total_proc_time_ms,
    speakers |-> IF newResult.speakers = << >> THEN res.speakers
                 ELSE newResult.speakers ]

\* _updateResult, web_voice.js:570-582
updateResult(res, newResult) ==
  [ words |-> popNonFinal(res.words) \o newResult.words,
    final_proc_time_ms |-> newResult.final_proc_time_ms,
    total_proc_time_ms |-> newResult.total_proc_time_ms,
    speakers |-> newResult.speakers ]

(***************************************************************************)
(* The inputs of the environment.                                          *)
(***************************************************************************)
JsWord(t, s) == [ t |-> t, s |-> s, d |-> 1, spk |-> 1 ]

\* the service messages a transport delivers (hasSpks: the message has a
\* "spks" property)
Responses ==
  { [ fw |-> << JsWord("a", 0) >>, nfw |-> << JsWord("b", 1) >>,
      fpt |-> 1, tpt |-> 2, hasSpks |-> FALSE, spks |-> << >> ],
    [ fw |-> << >>, nfw |-> << JsWord("c", 2) >>,
      fpt |-> 3, tpt |-> 4, hasSpks |-> TRUE,
      spks |-> << [ spk |-> 1, nm |-> "ann" ] >> ] }

\* the service messages with up to two final and up to two non-final words
MergeResponses ==
  { [ fw |-> fw, nfw |-> nfw, fpt |-> 1, tpt |-> 2, hasSpks |-> FALSE,
      spks |-> << >> ] :
      fw \in { << >>, << JsWord("a", 0) >>, << JsWord("a", 0), JsWord("b", 1) >> },
      nfw \in { << >>, << JsWord("c", 2) >>, << JsWord("c", 2), JsWord("a", 3) >> } }

\* the service messages with and without words, metrics and speakers
ResultResponses == MergeResponses \cup Responses

ReasonEofDone == << "<", "e", "o", "f", ">", " ", "d", "o", "n", "e" >>
ReasonEof == << "<", "e", "o", "f", ">" >>
ReasonOtherTag == << "<", "b", "a", "d", "_", "1", ">", " ", " ", "x" >>
ReasonEmpty == << >>
ReasonNoBrackets == << "e", "o", "f" >>
ReasonTwoLines == << "<", "e", "o", "f", ">", " ", "a", "\n", "b" >>

\* the close reasons a transport delivers
CloseReasons ==
  { ReasonEofDone, ReasonEof, ReasonOtherTag, ReasonEmpty, ReasonNoBrackets,
    ReasonTwoLines }

\* the close codes a transport delivers
CloseCodes == { NormalClosure, 1006, 1011 }

(***************************************************************************)
(* The encoder worker, web_voice.js:617-704.  A chunk is one encoded       *)
(* sample block, kept here by its length in bytes; a frame of the session  *)
(* model is the serial number of a buffer that dump() returned.            *)
(***************************************************************************)
\* the chunk encode() buffers for one onaudioprocess block of the session,
\* web_voice.js:622-623 and 646 (the session records without
\* removeInitialZeros, web_voice.js:359)
SessionChunk == [ length |-> ScriptProcessorSize * BytesPerSample ]

\* an inner loop of dump() that takes every chunk that is left
groupSizeUnbounded(bufs, numBuffers, length, maxOutputSize) == Len(bufs)

RECURSIVE groupSize(_, _, _, _)
\* the inner loop of dump(), web_voice.js:657-664: how many of the chunks
\* of bufs go into the output buffer that starts at its first chunk
groupSize(bufs, numBuffers, length, maxOutputSize) ==
  IF numBuffers < Len(bufs)
       /\ ~(numBuffers > 0
              /\ length + bufs[numBuffers + 1].length > maxOutputSize)
  THEN groupSize(bufs, numBuffers + 1, length + bufs[numBuffers + 1].length,
                 maxOutputSize)
  ELSE numBuffers

RECURSIVE dumpGroups(_, _)
\* the outer loop of dump(), web_voice.js:653-677: the chunks of each output
\* buffer
dumpGroups(bufs, maxOutputSize) ==
  IF bufs = << >> THEN << >>
  ELSE
    LET n == groupSize(bufs, 0, 0, maxOutputSize)
    IN << SubSeq(bufs, 1, n) >> \o dumpGroups(Drop(bufs, n), maxOutputSize)

\* dump(), web_voice.js:649-686: the output buffers, each the sequence of
\* the chunks copied into it (none for the empty buffer of line 680)
dump(bufs, maxOutputSize, removeInitialZeros, initialZeros) ==
  LET outputBuffers == dumpGroups(bufs, maxOutputSize)
  IN IF outputBuffers = << >> /\ removeInitialZeros /\ initialZeros
     THEN << << >> >>
     ELSE outputBuffers

MathMax(a, b) == IF a > b THEN a ELSE b
MathMin(a, b) == IF a < b THEN a ELSE b

\* web_voice.js:626-629.  A sample of an input block is kept as the integer
\* n of its amplitude n / 65536, so that buffer[i] * 32768 is n / 2.
encodeSample(n) == MathMax(-32768, MathMin(32767, n \div 2))

\* Math.round(buffer[i] * 32768) for the amplitude num / den
roundScaled(num, den) ==
  (2 * num + den \div 32768) \div (2 * (den \div 32768))

\* Math.floor(buffer[i] * 32768), web_voice.js:628, for the amplitude
\* num / den, den a multiple of 32768
floorScaled(num, den) == num \div (den \div 32768)

\* web_voice.js:626-629 for the amplitude num / den
encodeAmplitude(num, den) ==
  MathMax(-32768, MathMin(32767, floorScaled(num, den)))

\* view.setInt16(byteOffset, sample) with the high byte first
setInt16BigEndian(sample) ==
  LET bits == sample % 65536 IN << bits \div 256, bits % 256 >>

\* view.setInt16(byteOffset, sample, true), web_voice.js:631: the two bytes
\* of the sample, the low one first
setInt16(sample) ==
  LET bits == sample % 65536 IN << bits % 256, bits \div 256 >>

RECURSIVE encodeArray(_)
\* the array that the loop of web_voice.js:625-632 fills
encodeArray(buffer) ==
  IF buffer = << >> THEN << >>
  ELSE setInt16(encodeSample(Head(buffer))) \o encodeArray(Tail(buffer))

\* view.getInt16(byteOffset), web_voice.js:635: the high byte first
getInt16(array, byteOffset) ==
  LET bits == array[byteOffset + 1] * 256 + array[byteOffset + 2]
  IN IF bits >= 32768 THEN bits - 65536 ELSE bits

RECURSIVE skipZeros(_, _, _)
\* the while loop of web_voice.js:635-637
skipZeros(array, i, length) ==
  IF i < length /\ getInt16(array, i * 2) = 0
  THEN skipZeros(array, i + 1, length)
  ELSE i

\* an element of buffers: a Uint8Array
Chunk(array) == [ length |-> Len(array), bytes |-> array ]

\* encode(buffer, removeInitialZeros), web_voice.js:621-647, in a worker e
\* (its buffers and initialZeros).  Line 642 assigns the rest of the input
\* block to the parameter buffer, which is not read again; the array that
\* line 646 pushes is the whole encoded block.
encode(e, buffer, removeInitialZeros) ==
  LET length == Len(buffer)
      array == encodeArray(buffer)
      i == skipZeros(array, 0, length)
  IN
  IF removeInitialZeros /\ e.initialZeros
  THEN
    IF i = length THEN e
    ELSE [ e EXCEPT !.initialZeros = FALSE,
                    !.buffers = Append(@, Chunk(array)) ]
  ELSE [ e EXCEPT !.buffers = Append(@, Chunk(array)) ]

RECURSIVE outputArray(_)
\* the array of one output buffer, web_voice.js:666-676: the chunks of the
\* group copied one after the other
outputArray(group) ==
  IF group = << >> THEN << >>
  ELSE Head(group).bytes \o outputArray(Tail(group))

DataEvent(frame) == [ type |-> "data", frame |-> frame ]
EndEvent == [ type |-> "end", frame |-> 0 ]

\* onmessage of the worker, web_voice.js:688-703, on command cmd
workerOnMessage(r, cmd) ==
  IF cmd = "encode" THEN
    [ r EXCEPT !.buffers = Append(@, SessionChunk) ]
  ELSE IF cmd = "dump" THEN
    LET outputBuffers ==
          dump(r.buffers, r.maxOutputSize, r.removeInitialZeros, r.initialZeros)
    IN [ r EXCEPT
           !.buffers = << >>,
           !.outQ = @ \o [ i \in 1 .. Len(outputBuffers) |->
                             DataEvent(r.nFrames + i) ],
           !.nFrames = @ + Len(outputBuffers) ]
  ELSE
    [ r EXCEPT !.outQ = Append(@, EndEvent),
               !.buffers = << >>,
               !.initialZeros = TRUE ]

\* postMessage(["end", null]), web_voice.js:699, among events that carry
\* bytes: its data is not read
EndPosted == [ type |-> "end", frame |-> << >> ]

\* onmessage of the worker, web_voice.js:688-703, on a message data, with
\* the bytes of every chunk and output buffer; outQ holds what the worker
\* posts for this message
encoderOnMessage(e, data) ==
  IF data.cmd = "encode" THEN
    [ encode(e, data.buffer, data.removeInitialZeros) EXCEPT !.outQ = << >> ]
  ELSE IF data.cmd = "dump" THEN
    LET outputBuffers ==
          dump(e.buffers, data.maxOutputSize, data.removeInitialZeros,
               e.initialZeros)
    IN [ e EXCEPT
           !.buffers = << >>,
           !.outQ = [ i \in 1 .. Len(outputBuffers) |->
                        DataEvent(outputArray(outputBuffers[i])) ] ]
  ELSE
    [ e EXCEPT !.outQ = << EndPosted >>,
               !.buffers = << >>,
               !.initialZeros = TRUE ]

(***************************************************************************)
(* The MediaRecorder polyfill, web_voice.js:727-942.                       *)
(***************************************************************************)
\* no recorder constructed yet
NoRecorder ==
  [ state |-> "none", slicing |-> FALSE, listeners |-> FALSE,
    worker |-> "none", maxOutputSize |-> 0, removeInitialZeros |-> FALSE,
    cmdQ |-> << >>, buffers |-> << >>, initialZeros |-> TRUE,
    outQ |-> << >>, nFrames |-> 0, nEmitted |-> 0 ]

\* the constructor, web_voice.js:741-768
NewMediaRecorder ==
  [ NoRecorder EXCEPT !.state = "inactive", !.worker = "alive" ]

\* _postEncoderDump, web_voice.js:935-941
postEncoderDump(r) == [ r EXCEPT !.cmdQ = Append(@, "dump") ]

\* start(timeslice, maxOutputSize, playBack, removeInitialZeros),
\* web_voice.js:786-838, on an inactive recorder
MediaRecorderStart(r, timeslice, maxOutputSize, removeInitialZeros) ==
  [ r EXCEPT !.state = "recording",
             !.maxOutputSize = maxOutputSize,
             !.removeInitialZeros = removeInitialZeros,
             !.slicing = (timeslice # 0) ]

\* stop() that posts no end command
MediaRecorderStopNoEnd(r) ==
  IF r.state = "inactive" THEN r
  ELSE postEncoderDump([ r EXCEPT !.state = "inactive", !.slicing = FALSE ])

\* stop() that posts the end command before the dump command
MediaRecorderStopEndFirst(r) ==
  IF r.state = "inactive" THEN r
  ELSE
    LET stopped == [ r EXCEPT !.state = "inactive", !.slicing = FALSE ]
    IN postEncoderDump([ stopped EXCEPT !.cmdQ = Append(@, "end") ])

\* stop(), web_voice.js:860-891
MediaRecorderStop(r) ==
  IF r.state = "inactive" THEN r
  ELSE
    LET stopped == [ r EXCEPT !.state = "inactive", !.slicing = FALSE ]
    IN [ postEncoderDump(stopped) EXCEPT !.cmdQ = Append(@, "end") ]

\* terminateWorker(), web_voice.js:844-846: the worker stops and the
\* messages it posted and that were not yet dispatched are discarded
terminateWorker(r) ==
  [ r EXCEPT !.worker = "terminated",
             !.cmdQ = << >>, !.buffers = << >>, !.outQ = << >> ]

(***************************************************************************)
(* The WebSocket object.                                                   *)
(***************************************************************************)
NoSocket == [ readyState |-> "none", sent |-> << >>, received |-> 0 ]

\* new WebSocket(uri), web_voice.js:345
NewWebSocket == [ NoSocket EXCEPT !.readyState = "connecting" ]

\* WebSocket.close()
WebSocketClose(w) ==
  [ w EXCEPT !.readyState =
      IF @ \in { "connecting", "open" } THEN "closing" ELSE @ ]

\* WebSocket.send(message)
WebSocketSend(w, message) == [ w EXCEPT !.sent = Append(@, message) ]

NoRequest == [ api_key |-> "", include_nonfinal |-> "" ]

\* the request of _onWebSocketOpen, web_voice.js:401-437
HandshakeRequest(cfg) ==
  [ api_key |-> cfg.apiKey, include_nonfinal |-> cfg.includeNonFinal ]

JsonMessage(request) == [ kind |-> "json", frame |-> 0, request |-> request ]
AudioMessage(frame) == [ kind |-> "audio", frame |-> frame, request |-> NoRequest ]
EmptyMessage == [ kind |-> "empty", frame |-> 0, request |-> NoRequest ]

(***************************************************************************)
(* RecordTranscribe, web_voice.js:98-583.                                  *)
(***************************************************************************)
NullQueue == [ isNull |-> TRUE, items |-> << >> ]
EmptyQueue == [ isNull |-> FALSE, items |-> << >> ]

NoCalls ==
  [ onStarted |-> 0, onPartialResult |-> 0, onFinished |-> 0, onError |-> 0 ]

NoErrorArgs == [ status |-> << >>, message |-> << >> ]

\* no microtask is waiting: the browser runs every queued microtask before
\* it runs the next event handler
NoMicrotask == \A s \in Sessions : ~early[s]

Init ==
  /\ recordTranscribeActive = FALSE
  /\ state = [ s \in Sessions |-> State.Init ]
  /\ config = [ s \in Sessions |-> DefaultConfig ]
  /\ usageError = "none"
  /\ gum = [ s \in Sessions |-> "none" ]
  /\ tracks = [ s \in Sessions |-> "none" ]
  /\ stream = [ s \in Sessions |-> "null" ]
  /\ mediaRecorder = [ s \in Sessions |-> "null" ]
  /\ webSocket = [ s \in Sessions |-> "null" ]
  /\ queuedMessages = [ s \in Sessions |-> NullQueue ]
  /\ result = [ s \in Sessions |-> initialResult ]
  /\ early = [ s \in Sessions |-> FALSE ]
  /\ recorder = [ s \in Sessions |-> NoRecorder ]
  /\ socket = [ s \in Sessions |-> NoSocket ]
  /\ calls = [ s \in Sessions |-> NoCalls ]
  /\ errorArgs = [ s \in Sessions |-> NoErrorArgs ]
  /\ dropped = [ s \in Sessions |-> 0 ]

\* a usage error: the call throws msg and does nothing else
Throw(msg) ==
  /\ usageError' = msg
  /\ UNCHANGED << recordTranscribeActive, state, config, gum, tracks, stream,
                  mediaRecorder, webSocket, queuedMessages, result, early,
                  recorder, socket, calls, errorArgs, dropped >>

\* _closeWebSocket, web_voice.js:516-525, on a socket in state w
closeWebSocket(s, w) ==
  IF webSocket[s] # "null"
  THEN /\ socket' = [ socket EXCEPT ![s] = WebSocketClose(w) ]
       /\ webSocket' = [ webSocket EXCEPT ![s] = "null" ]
  ELSE /\ socket' = [ socket EXCEPT ![s] = w ]
       /\ webSocket' = webSocket

\* _closeMedia, web_voice.js:527-544, on a recorder in state r
closeMedia(s, r) ==
  /\ IF mediaRecorder[s] # "null"
     THEN /\ recorder' =
               [ recorder EXCEPT ![s] =
                   terminateWorker(
                     MediaRecorderStop([ r EXCEPT !.listeners = FALSE ])) ]
          /\ mediaRecorder' = [ mediaRecorder EXCEPT ![s] = "null" ]
     ELSE /\ recorder' = [ recorder EXCEPT ![s] = r ]
          /\ mediaRecorder' = mediaRecorder
  /\ IF stream[s] # "null"
     THEN /\ tracks' = [ tracks EXCEPT ![s] = "stopped" ]
          /\ stream' = [ stream EXCEPT ![s] = "null" ]
     ELSE UNCHANGED << tracks, stream >>

\* _closeResources, web_voice.js:510-514
closeResources(s, w, r) ==
  /\ closeWebSocket(s, w)
  /\ closeMedia(s, r)
  /\ queuedMessages' = [ queuedMessages EXCEPT ![s] = NullQueue ]

\* the invocation `if (this._onX != null) this._onX(...)`
invoke(s, callback) ==
  calls' = [ calls EXCEPT ![s][callback] =
               IF config[s][callback] # "null" THEN @ + 1 ELSE @ ]

\* _handleError that leaves the state of the session as it was
handleErrorKeepsState(s, w, r, status, message) ==
  /\ closeResources(s, w, r)
  /\ state' = state
  /\ recordTranscribeActive' = FALSE
  /\ errorArgs' = [ errorArgs EXCEPT ![s] =
                      [ status |-> status, message |-> message ] ]
  /\ invoke(s, "onError")

\* _handleError, web_voice.js:552-559
handleError(s, w, r, status, message) ==
  /\ closeResources(s, w, r)
  /\ state' = [ state EXCEPT ![s] = State.Error ]
  /\ recordTranscribeActive' = FALSE
  /\ errorArgs' = [ errorArgs EXCEPT ![s] =
                      [ status |-> status, message |-> message ] ]
  /\ invoke(s, "onError")

\* _handleFinished, web_voice.js:561-568
handleFinished(s, w, r) ==
  /\ closeResources(s, w, r)
  /\ state' = [ state EXCEPT ![s] = State.Finished ]
  /\ recordTranscribeActive' = FALSE
  /\ invoke(s, "onFinished")
  /\ UNCHANGED errorArgs

(***************************************************************************)
(* The public API.  A call is made by user code, which also runs between   *)
(* stop() and the microtask stop() queued.                                 *)
(***************************************************************************)
\* the setter of field f called with value v, web_voice.js:133-264
Setter(s, f, v) ==
  IF state[s] # State.Init THEN Throw(SetterError(f))
  ELSE
    /\ config' = [ config EXCEPT ![s][f] = v ]
    /\ usageError' = "none"
    /\ UNCHANGED << recordTranscribeActive, state, gum, tracks, stream,
                    mediaRecorder, webSocket, queuedMessages, result, early,
                    recorder, socket, calls, errorArgs, dropped >>

\* start() with the flag and the state set before the checks are made
StartSetsFlagFirst(s) ==
  IF state[s] = State.Init /\ ~recordTranscribeActive
       /\ config[s].apiKey = NullKey
  THEN
    /\ usageError' = "API key not set, call setApiKey first"
    /\ recordTranscribeActive' = TRUE
    /\ state' = [ state EXCEPT ![s] = State.RequestingMedia ]
    /\ UNCHANGED << config, gum, tracks, stream, mediaRecorder, webSocket,
                    queuedMessages, result, early, recorder, socket, calls,
                    errorArgs, dropped >>
  ELSE IF state[s] # State.Init
  THEN Throw("start() may only be called once")
  ELSE IF recordTranscribeActive
  THEN Throw("only one RecordTranscribe may be active at a time")
  ELSE
    /\ gum' = [ gum EXCEPT ![s] = "pending" ]
    /\ recordTranscribeActive' = TRUE
    /\ state' = [ state EXCEPT ![s] = State.RequestingMedia ]
    /\ usageError' = "none"
    /\ UNCHANGED << config, tracks, stream, mediaRecorder, webSocket,
                    queuedMessages, result, early, recorder, socket, calls,
                    errorArgs, dropped >>

\* start(), web_voice.js:266-285
Start(s) ==
  IF state[s] # State.Init THEN Throw("start() may only be called once")
  ELSE IF recordTranscribeActive
  THEN Throw("only one RecordTranscribe may be active at a time")
  ELSE IF config[s].apiKey = NullKey
  THEN Throw("API key not set, call setApiKey first")
  ELSE
    /\ gum' = [ gum EXCEPT ![s] = "pending" ]
    /\ recordTranscribeActive' = TRUE
    /\ state' = [ state EXCEPT ![s] = State.RequestingMedia ]
    /\ usageError' = "none"
    /\ UNCHANGED << config, tracks, stream, mediaRecorder, webSocket,
                    queuedMessages, result, early, recorder, socket, calls,
                    errorArgs, dropped >>

\* stop() that also stops the recorder of a session that is past Running
StopWhileFinishing(s) ==
  /\ usageError' = "none"
  /\ IF state[s] = State.RequestingMedia \/ state[s] = State.OpeningWebSocket
     THEN
       /\ closeResources(s, socket[s], recorder[s])
       /\ early' = [ early EXCEPT ![s] = TRUE ]
       /\ state' = [ state EXCEPT ![s] = State.FinishingEarly ]
       /\ UNCHANGED << recordTranscribeActive, config, gum, result, calls,
                       errorArgs, dropped >>
     ELSE IF state[s] \in { State.Running, State.FinishingProcessing }
     THEN
       /\ recorder' = [ recorder EXCEPT ![s] = MediaRecorderStop(@) ]
       /\ state' = [ state EXCEPT ![s] = State.FinishingRecording ]
       /\ UNCHANGED << recordTranscribeActive, config, gum, tracks, stream,
                       mediaRecorder, webSocket, queuedMessages, result, early,
                       socket, calls, errorArgs, dropped >>
     ELSE
       UNCHANGED << recordTranscribeActive, state, config, gum, tracks, stream,
                    mediaRecorder, webSocket, queuedMessages, result, early,
                    recorder, socket, calls, errorArgs, dropped >>

\* stop(), web_voice.js:287-300
Stop(s) ==
  /\ usageError' = "none"
  /\ IF state[s] = State.RequestingMedia \/ state[s] = State.OpeningWebSocket
     THEN
       /\ closeResources(s, socket[s], recorder[s])
       /\ early' = [ early EXCEPT ![s] = TRUE ]
       /\ state' = [ state EXCEPT ![s] = State.FinishingEarly ]
       /\ UNCHANGED << recordTranscribeActive, config, gum, result, calls,
                       errorArgs, dropped >>
     ELSE IF state[s] = State.Running
     THEN
       \* _stopRecording, web_voice.js:363-365
       /\ recorder' = [ recorder EXCEPT ![s] = MediaRecorderStop(@) ]
       /\ state' = [ state EXCEPT ![s] = State.FinishingRecording ]
       /\ UNCHANGED << recordTranscribeActive, config, gum, tracks, stream,
                       mediaRecorder, webSocket, queuedMessages, result, early,
                       socket, calls, errorArgs, dropped >>
     ELSE
       UNCHANGED << recordTranscribeActive, state, config, gum, tracks, stream,
                    mediaRecorder, webSocket, queuedMessages, result, early,
                    recorder, socket, calls, errorArgs, dropped >>

\* cancel() that leaves recordTranscribeActive set
CancelKeepsFlag(s) ==
  /\ usageError' = "none"
  /\ IF ~isInactiveState(state[s])
     THEN
       /\ closeResources(s, socket[s], recorder[s])
       /\ state' = [ state EXCEPT ![s] = State.Canceled ]
       /\ UNCHANGED << recordTranscribeActive, config, gum, result, early,
                       calls, errorArgs, dropped >>
     ELSE
       UNCHANGED << recordTranscribeActive, state, config, gum, tracks, stream,
                    mediaRecorder, webSocket, queuedMessages, result, early,
                    recorder, socket, calls, errorArgs, dropped >>

\* cancel() without its check of the state
CancelUnguarded(s) ==
  /\ usageError' = "none"
  /\ closeResources(s, socket[s], recorder[s])
  /\ state' = [ state EXCEPT ![s] = State.Canceled ]
  /\ recordTranscribeActive' = FALSE
  /\ UNCHANGED << config, gum, result, early, calls, errorArgs, dropped >>

\* cancel(), web_voice.js:302-308
Cancel(s) ==
  /\ usageError' = "none"
  /\ IF ~isInactiveState(state[s])
     THEN
       /\ closeResources(s, socket[s], recorder[s])
       /\ state' = [ state EXCEPT ![s] = State.Canceled ]
       /\ recordTranscribeActive' = FALSE
       /\ UNCHANGED << config, gum, result, early, calls, errorArgs, dropped >>
     ELSE
       UNCHANGED << recordTranscribeActive, state, config, gum, tracks, stream,
                    mediaRecorder, webSocket, queuedMessages, result, early,
                    recorder, socket, calls, errorArgs, dropped >>

\* _completeFinishingEarly without its check of the state
CompleteFinishingEarlyUnguarded(s) ==
  /\ early[s]
  /\ early' = [ early EXCEPT ![s] = FALSE ]
  /\ usageError' = "none"
  /\ handleFinished(s, socket[s], recorder[s])
  /\ UNCHANGED << config, gum, result, dropped >>

\* _completeFinishingEarly that reports a failure
CompleteFinishingEarlyAsError(s) ==
  /\ early[s]
  /\ early' = [ early EXCEPT ![s] = FALSE ]
  /\ usageError' = "none"
  /\ IF state[s] # State.FinishingEarly
     THEN UNCHANGED << recordTranscribeActive, state, tracks, stream,
                       mediaRecorder, webSocket, queuedMessages, recorder,
                       socket, calls, errorArgs >>
     ELSE handleError(s, socket[s], recorder[s], << "early" >>, << >>)
  /\ UNCHANGED << config, gum, result, dropped >>

\* the microtask of stop(): _completeFinishingEarly, web_voice.js:503-508
CompleteFinishingEarly(s) ==
  /\ early[s]
  /\ early' = [ early EXCEPT ![s] = FALSE ]
  /\ usageError' = "none"
  /\ IF state[s] # State.FinishingEarly
     THEN UNCHANGED << recordTranscribeActive, state, config, gum, tracks,
                       stream, mediaRecorder, webSocket, queuedMessages, result,
                       recorder, socket, calls, errorArgs, dropped >>
     ELSE /\ handleFinished(s, socket[s], recorder[s])
          /\ UNCHANGED << config, gum, result, dropped >>

(***************************************************************************)
(* getUserMedia.                                                           *)
(***************************************************************************)
\* _onGetUserMediaSuccess without its check of the state
OnGetUserMediaSuccessUnguarded(s) ==
  /\ gum[s] = "pending"
  /\ NoMicrotask
  /\ gum' = [ gum EXCEPT ![s] = "settled" ]
  /\ usageError' = "none"
  /\ tracks' = [ tracks EXCEPT ![s] = "live" ]
  /\ stream' = [ stream EXCEPT ![s] = "stream" ]
  /\ mediaRecorder' = [ mediaRecorder EXCEPT ![s] = "recorder" ]
  /\ recorder' =
       [ recorder EXCEPT ![s] =
           MediaRecorderStart([ NewMediaRecorder EXCEPT !.listeners = TRUE ],
                              RecorderTimeSlice_ms, MaxOutputSize_B, FALSE) ]
  /\ webSocket' = [ webSocket EXCEPT ![s] = "socket" ]
  /\ socket' = [ socket EXCEPT ![s] = NewWebSocket ]
  /\ queuedMessages' = [ queuedMessages EXCEPT ![s] = EmptyQueue ]
  /\ state' = [ state EXCEPT ![s] = State.OpeningWebSocket ]
  /\ UNCHANGED << recordTranscribeActive, config, result, early, calls,
                  errorArgs, dropped >>

\* the promise is fulfilled: _onGetUserMediaSuccess, web_voice.js:328-352
OnGetUserMediaSuccess(s) ==
  /\ gum[s] = "pending"
  /\ NoMicrotask
  /\ gum' = [ gum EXCEPT ![s] = "settled" ]
  /\ usageError' = "none"
  /\ IF state[s] # State.RequestingMedia
     THEN
       \* _stopTracks(stream)
       /\ tracks' = [ tracks EXCEPT ![s] = "stopped" ]
       /\ UNCHANGED << recordTranscribeActive, state, config, stream,
                       mediaRecorder, webSocket, queuedMessages, result, early,
                       recorder, socket, calls, errorArgs, dropped >>
     ELSE
       /\ tracks' = [ tracks EXCEPT ![s] = "live" ]
       /\ stream' = [ stream EXCEPT ![s] = "stream" ]
       /\ mediaRecorder' = [ mediaRecorder EXCEPT ![s] = "recorder" ]
       \* addEventListener twice, then _startRecording, web_voice.js:354-361
       /\ recorder' =
            [ recorder EXCEPT ![s] =
                MediaRecorderStart([ NewMediaRecorder EXCEPT !.listeners = TRUE ],
                                   RecorderTimeSlice_ms, MaxOutputSize_B,
                                   FALSE) ]
       /\ IF config[s].webSocketUri = "invalid"
          THEN
            \* new WebSocket(uri) throws a SyntaxError, web_voice.js:345: the
            \* handler ends there, in a promise reaction that nothing catches
            UNCHANGED << webSocket, socket, queuedMessages, state >>
          ELSE
            /\ webSocket' = [ webSocket EXCEPT ![s] = "socket" ]
            /\ socket' = [ socket EXCEPT ![s] = NewWebSocket ]
            /\ queuedMessages' = [ queuedMessages EXCEPT ![s] = EmptyQueue ]
            /\ state' = [ state EXCEPT ![s] = State.OpeningWebSocket ]
       /\ UNCHANGED << recordTranscribeActive, config, result, early, calls,
                       errorArgs, dropped >>

\* _onGetUserMediaError without its check of the state
OnGetUserMediaErrorUnguarded(s) ==
  /\ gum[s] = "pending"
  /\ NoMicrotask
  /\ gum' = [ gum EXCEPT ![s] = "settled" ]
  /\ usageError' = "none"
  /\ handleError(s, socket[s], recorder[s], << "get_user_media_failed" >>,
                 << "Failed to get user media." >>)
  /\ UNCHANGED << config, result, early, dropped >>

\* the promise is rejected: _onGetUserMediaError, web_voice.js:367-372
OnGetUserMediaError(s) ==
  /\ gum[s] = "pending"
  /\ NoMicrotask
  /\ gum' = [ gum EXCEPT ![s] = "settled" ]
  /\ usageError' = "none"
  /\ IF state[s] # State.RequestingMedia
     THEN UNCHANGED << recordTranscribeActive, state, config, tracks, stream,
                       mediaRecorder, webSocket, queuedMessages, result, early,
                       recorder, socket, calls, errorArgs, dropped >>
     ELSE /\ handleError(s, socket[s], recorder[s],
                         << "get_user_media_failed" >>,
                         << "Failed to get user media." >>)
          /\ UNCHANGED << config, result, early, dropped >>

(***************************************************************************)
(* The recorder: the audio callback, the dump timer, the worker and the    *)
(* events the worker's messages become.                                    *)
(***************************************************************************)
\* the commands "encode" / "dump" waiting in a command queue
Pending(q, cmd) == Cardinality({ i \in 1 .. Len(q) : q[i] = cmd })

\* processor.onaudioprocess, web_voice.js:813-821
AudioProcess(s, maxBuffered) ==
  /\ recorder[s].state = "recording"
  /\ NoMicrotask
  /\ Len(recorder[s].cmdQ) < MaxCmdQ
  /\ Len(recorder[s].buffers) + Pending(recorder[s].cmdQ, "encode") < maxBuffered
  /\ recorder' = [ recorder EXCEPT ![s].cmdQ = Append(@, "encode") ]
  /\ usageError' = "none"
  /\ UNCHANGED << recordTranscribeActive, state, config, gum, tracks, stream,
                  mediaRecorder, webSocket, queuedMessages, result, early,
                  socket, calls, errorArgs, dropped >>

\* the setInterval callback of start(), web_voice.js:830-834
TimerTick(s, maxFrames) ==
  /\ recorder[s].slicing
  /\ NoMicrotask
  /\ Len(recorder[s].cmdQ) < MaxCmdQ
  /\ recorder[s].nFrames + Pending(recorder[s].cmdQ, "dump") < maxFrames
  /\ recorder' =
       [ recorder EXCEPT ![s] =
           IF @.state = "recording" THEN postEncoderDump(@) ELSE @ ]
  /\ usageError' = "none"
  /\ UNCHANGED << recordTranscribeActive, state, config, gum, tracks, stream,
                  mediaRecorder, webSocket, queuedMessages, result, early,
                  socket, calls, errorArgs, dropped >>

\* the worker takes its next command, web_voice.js:688-703
WorkerStep(s) ==
  /\ recorder[s].worker = "alive"
  /\ recorder[s].cmdQ # << >>
  /\ Len(recorder[s].outQ) < MaxOutQ
  /\ recorder' =
       [ recorder EXCEPT ![s] =
           workerOnMessage([ @ EXCEPT !.cmdQ = Tail(@) ], Head(recorder[s].cmdQ)) ]
  /\ usageError' = "none"
  /\ UNCHANGED << recordTranscribeActive, state, config, gum, tracks, stream,
                  mediaRecorder, webSocket, queuedMessages, result, early,
                  socket, calls, errorArgs, dropped >>

\* _onMediaRecorderData that appends while the queue holds at most 100 frames
OnMediaRecorderDataOneMore(s) ==
  /\ recorder[s].outQ # << >>
  /\ Head(recorder[s].outQ).type = "data"
  /\ NoMicrotask
  /\ usageError' = "none"
  /\ recorder' = [ recorder EXCEPT ![s].outQ = Tail(@),
                                   ![s].nEmitted = @ + 1 ]
  /\ LET data == Head(recorder[s].outQ).frame
     IN
     IF ~recorder[s].listeners
     THEN UNCHANGED << queuedMessages, socket, dropped >>
     ELSE IF state[s] = State.OpeningWebSocket
     THEN
       IF Len(queuedMessages[s].items) <= MaxQueuedMessages
       THEN /\ queuedMessages' =
                 [ queuedMessages EXCEPT ![s].items = Append(@, data) ]
            /\ UNCHANGED << socket, dropped >>
       ELSE /\ dropped' = [ dropped EXCEPT ![s] = @ + 1 ]
            /\ UNCHANGED << queuedMessages, socket >>
     ELSE IF state[s] = State.Running \/ state[s] = State.FinishingRecording
     THEN /\ socket' = [ socket EXCEPT ![s] = WebSocketSend(@, AudioMessage(data)) ]
          /\ UNCHANGED << queuedMessages, dropped >>
     ELSE UNCHANGED << queuedMessages, socket, dropped >>
  /\ UNCHANGED << recordTranscribeActive, state, config, gum, tracks, stream,
                  mediaRecorder, webSocket, result, early, calls, errorArgs >>

\* a "data" message of the worker is dispatched, web_voice.js:763-767, and
\* reaches _onMediaRecorderData, web_voice.js:374-387
OnMediaRecorderData(s) ==
  /\ recorder[s].outQ # << >>
  /\ Head(recorder[s].outQ).type = "data"
  /\ NoMicrotask
  /\ usageError' = "none"
  /\ recorder' = [ recorder EXCEPT ![s].outQ = Tail(@),
                                   ![s].nEmitted = @ + 1 ]
  /\ LET data == Head(recorder[s].outQ).frame
     IN
     IF ~recorder[s].listeners
     THEN UNCHANGED << queuedMessages, socket, dropped >>
     ELSE IF state[s] = State.OpeningWebSocket
     THEN
       IF Len(queuedMessages[s].items) < MaxQueuedMessages
       THEN /\ queuedMessages' =
                 [ queuedMessages EXCEPT ![s].items = Append(@, data) ]
            /\ UNCHANGED << socket, dropped >>
       ELSE \* console.error
            /\ dropped' = [ dropped EXCEPT ![s] = @ + 1 ]
            /\ UNCHANGED << queuedMessages, socket >>
     ELSE IF state[s] = State.Running \/ state[s] = State.FinishingRecording
     THEN /\ socket' = [ socket EXCEPT ![s] = WebSocketSend(@, AudioMessage(data)) ]
          /\ UNCHANGED << queuedMessages, dropped >>
     ELSE UNCHANGED << queuedMessages, socket, dropped >>
  /\ UNCHANGED << recordTranscribeActive, state, config, gum, tracks, stream,
                  mediaRecorder, webSocket, result, early, calls, errorArgs >>

\* the "end" message of the worker is dispatched, web_voice.js:763-767, and
\* reaches _onMediaRecorderEnd, web_voice.js:389-395
OnMediaRecorderEnd(s) ==
  /\ recorder[s].outQ # << >>
  /\ Head(recorder[s].outQ).type = "end"
  /\ NoMicrotask
  /\ usageError' = "none"
  /\ LET r == [ recorder[s] EXCEPT !.outQ = Tail(@) ]
     IN
     IF recorder[s].listeners /\ state[s] = State.FinishingRecording
     THEN /\ closeMedia(s, r)
          /\ socket' = [ socket EXCEPT ![s] = WebSocketSend(@, EmptyMessage) ]
          /\ state' = [ state EXCEPT ![s] = State.FinishingProcessing ]
     ELSE /\ recorder' = [ recorder EXCEPT ![s] = r ]
          /\ UNCHANGED << tracks, stream, mediaRecorder, socket, state >>
  /\ UNCHANGED << recordTranscribeActive, config, gum, webSocket,
                  queuedMessages, result, early, calls, errorArgs, dropped >>

(***************************************************************************)
(* The transport.  An event reaches the session through the handlers that  *)
(* _onGetUserMediaSuccess sets and _closeWebSocket clears together with    *)
(* this._webSocket.  The transport may deliver any close code and reason   *)
(* at any time before it is closed.                                        *)
(***************************************************************************)
\* _onWebSocketOpen that sends the queued frames last first
OnWebSocketOpenLastFirst(s) ==
  /\ webSocket[s] # "null"
  /\ socket[s].readyState = "connecting"
  /\ NoMicrotask
  /\ usageError' = "none"
  /\ IF state[s] # State.OpeningWebSocket
     THEN /\ socket' = [ socket EXCEPT ![s].readyState = "open" ]
          /\ UNCHANGED << queuedMessages, state, calls >>
     ELSE /\ socket' =
               [ socket EXCEPT
                   ![s].readyState = "open",
                   ![s].sent =
                     @ \o << JsonMessage(HandshakeRequest(config[s])) >>
                       \o [ i \in 1 .. Len(queuedMessages[s].items) |->
                              AudioMessage(queuedMessages[s].items[
                                Len(queuedMessages[s].items) + 1 - i]) ] ]
          /\ queuedMessages' = [ queuedMessages EXCEPT ![s] = NullQueue ]
          /\ state' = [ state EXCEPT ![s] = State.Running ]
          /\ invoke(s, "onStarted")
  /\ UNCHANGED << recordTranscribeActive, config, gum, tracks, stream,
                  mediaRecorder, webSocket, result, early, recorder, errorArgs,
                  dropped >>

\* _onWebSocketOpen that sends the queued frames before the request
OnWebSocketOpenQueueFirst(s) ==
  /\ webSocket[s] # "null"
  /\ socket[s].readyState = "connecting"
  /\ NoMicrotask
  /\ usageError' = "none"
  /\ IF state[s] # State.OpeningWebSocket
     THEN /\ socket' = [ socket EXCEPT ![s].readyState = "open" ]
          /\ UNCHANGED << queuedMessages, state, calls >>
     ELSE /\ socket' =
               [ socket EXCEPT
                   ![s].readyState = "open",
                   ![s].sent =
                     @ \o [ i \in 1 .. Len(queuedMessages[s].items) |->
                              AudioMessage(queuedMessages[s].items[i]) ]
                       \o << JsonMessage(HandshakeRequest(config[s])) >> ]
          /\ queuedMessages' = [ queuedMessages EXCEPT ![s] = NullQueue ]
          /\ state' = [ state EXCEPT ![s] = State.Running ]
          /\ invoke(s, "onStarted")
  /\ UNCHANGED << recordTranscribeActive, config, gum, tracks, stream,
                  mediaRecorder, webSocket, result, early, recorder, errorArgs,
                  dropped >>

\* onopen: _onWebSocketOpen, web_voice.js:397-447
OnWebSocketOpen(s) ==
  /\ webSocket[s] # "null"
  /\ socket[s].readyState = "connecting"
  /\ NoMicrotask
  /\ usageError' = "none"
  /\ IF state[s] # State.OpeningWebSocket
     THEN /\ socket' = [ socket EXCEPT ![s].readyState = "open" ]
          /\ UNCHANGED << queuedMessages, state, calls >>
     ELSE /\ socket' =
               [ socket EXCEPT
                   ![s].readyState = "open",
                   ![s].sent =
                     @ \o << JsonMessage(HandshakeRequest(config[s])) >>
                       \o [ i \in 1 .. Len(queuedMessages[s].items) |->
                              AudioMessage(queuedMessages[s].items[i]) ] ]
          /\ queuedMessages' = [ queuedMessages EXCEPT ![s] = NullQueue ]
          /\ state' = [ state EXCEPT ![s] = State.Running ]
          /\ invoke(s, "onStarted")
  /\ UNCHANGED << recordTranscribeActive, config, gum, tracks, stream,
                  mediaRecorder, webSocket, result, early, recorder, errorArgs,
                  dropped >>

\* _onWebSocketClose that takes "eof" for the end in every state, and that
\* reports a closure without its code
closeOutcomeEofAnywhere(st, code, reason) ==
  LET match == StatusMessageExec(reason)
      error(status, message) ==
        [ finished |-> FALSE, status |-> status, message |-> message ]
  IN
  IF code = NormalClosure THEN
    IF match.matched THEN
      IF match.status = << "e", "o", "f" >>
      THEN [ finished |-> TRUE, status |-> << >>, message |-> << >> ]
      ELSE error(match.status, match.message)
    ELSE error(<< "other_asr_error" >>, reason)
  ELSE
    error(<< "websocket_closed" >>,
          << "WebSocket closed: code=" >> \o NumberToString(code)
            \o << ", reason=" >> \o reason)

closeOutcomeWithoutCode(st, code, reason) ==
  LET match == StatusMessageExec(reason)
      error(status, message) ==
        [ finished |-> FALSE, status |-> status, message |-> message ]
  IN
  IF code = NormalClosure THEN
    IF match.matched THEN
      IF match.status = << "e", "o", "f" >> THEN
        IF st = State.FinishingProcessing
        THEN [ finished |-> TRUE, status |-> << >>, message |-> << >> ]
        ELSE error(<< "other_asr_error" >>, << "Unexpected EOF received." >>)
      ELSE error(match.status, match.message)
    ELSE error(<< "other_asr_error" >>, reason)
  ELSE
    error(<< "websocket_closed" >>,
          << "WebSocket closed: reason=" >> \o reason)

\* what _onWebSocketClose does with a close event in a state where it does
\* not return at once, web_voice.js:453-477: "finished", or the arguments of
\* _handleError
closeOutcome(st, code, reason) ==
  LET match == StatusMessageExec(reason)
      error(status, message) ==
        [ finished |-> FALSE, status |-> status, message |-> message ]
  IN
  IF code = NormalClosure THEN
    IF match.matched THEN
      IF match.status = << "e", "o", "f" >> THEN
        IF st = State.FinishingProcessing
        THEN [ finished |-> TRUE, status |-> << >>, message |-> << >> ]
        ELSE error(<< "other_asr_error" >>, << "Unexpected EOF received." >>)
      ELSE error(match.status, match.message)
    ELSE error(<< "other_asr_error" >>, reason)
  ELSE
    error(<< "websocket_closed" >>,
          << "WebSocket closed: code=" >> \o NumberToString(code)
            \o << ", reason=" >> \o reason)

\* onclose: _onWebSocketClose, web_voice.js:449-478
OnWebSocketClose(s, code, reason) ==
  /\ webSocket[s] # "null"
  /\ socket[s].readyState \in { "connecting", "open" }
  /\ NoMicrotask
  /\ usageError' = "none"
  /\ LET w == [ socket[s] EXCEPT !.readyState = "closed" ]
         outcome == closeOutcome(state[s], code, reason)
     IN
     IF ~isWebSocketState(state[s])
     THEN /\ socket' = [ socket EXCEPT ![s] = w ]
          /\ UNCHANGED << recordTranscribeActive, state, tracks, stream,
                          mediaRecorder, webSocket, queuedMessages, recorder,
                          calls, errorArgs >>
     ELSE IF outcome.finished
     THEN handleFinished(s, w, recorder[s])
     ELSE handleError(s, w, recorder[s], outcome.status, outcome.message)
  /\ UNCHANGED << config, gum, result, early, dropped >>

\* onerror: _onWebSocketError, web_voice.js:480-485
OnWebSocketError(s) ==
  /\ webSocket[s] # "null"
  /\ socket[s].readyState \in { "connecting", "open" }
  /\ NoMicrotask
  /\ usageError' = "none"
  /\ LET w == [ socket[s] EXCEPT !.readyState = "closed" ]
     IN
     IF ~isWebSocketState(state[s])
     THEN /\ socket' = [ socket EXCEPT ![s] = w ]
          /\ UNCHANGED << recordTranscribeActive, state, tracks, stream,
                          mediaRecorder, webSocket, queuedMessages, recorder,
                          calls, errorArgs >>
     ELSE handleError(s, w, recorder[s], << "websocket_error" >>,
                      << "WebSocket error occurred." >>)
  /\ UNCHANGED << config, gum, result, early, dropped >>

\* onmessage: _onWebSocketMessage, web_voice.js:487-501, on a message whose
\* JSON text parses to response
OnWebSocketMessage(s, response, maxMessages) ==
  /\ webSocket[s] # "null"
  /\ socket[s].readyState = "open"
  /\ socket[s].received < maxMessages
  /\ NoMicrotask
  /\ usageError' = "none"
  /\ socket' = [ socket EXCEPT ![s].received = @ + 1 ]
  /\ IF /\ state[s] # State.Running
        /\ state[s] # State.FinishingRecording
        /\ state[s] # State.FinishingProcessing
     THEN UNCHANGED << result, calls >>
     ELSE /\ result' = [ result EXCEPT ![s] =
                           updateResult(@, resultFromResponse(response)) ]
          /\ invoke(s, "onPartialResult")
  /\ UNCHANGED << recordTranscribeActive, state, config, gum, tracks, stream,
                  mediaRecorder, webSocket, queuedMessages, early, recorder,
                  errorArgs, dropped >>

(***************************************************************************)
(* The encoder worker alone: a recorder was constructed, and its worker    *)
(* receives any messages.                                                  *)
(***************************************************************************)
\* the input blocks of the worker: amplitudes 0, 1, -1, 1 / 65536 and
\* -1 / 65536
SampleBlocks ==
  { << >>, << 0 >>, << 0, 0 >>, << 0, 65536 >>, << 65536, -65536 >>,
    << 1, -1 >>, << -65536 >> }

EncodeCommand(buffer, removeInitialZeros) ==
  [ cmd |-> "encode", buffer |-> buffer, maxOutputSize |-> 0,
    removeInitialZeros |-> removeInitialZeros ]

DumpCommand(maxOutputSize, removeInitialZeros) ==
  [ cmd |-> "dump", buffer |-> << >>, maxOutputSize |-> maxOutputSize,
    removeInitialZeros |-> removeInitialZeros ]

EndCommand ==
  [ cmd |-> "end", buffer |-> << >>, maxOutputSize |-> 0,
    removeInitialZeros |-> FALSE ]

\* the worker of recorder s takes the message data
EncoderMessage(s, data) ==
  /\ recorder[s].worker = "alive"
  /\ data.cmd = "encode" => Len(recorder[s].buffers) < MaxChunks
  /\ recorder' = [ recorder EXCEPT ![s] = encoderOnMessage(@, data) ]
  /\ UNCHANGED << recordTranscribeActive, state, config, usageError, gum,
                  tracks, stream, mediaRecorder, webSocket, queuedMessages,
                  result, early, socket, calls, errorArgs, dropped >>

EncoderEncode(s) ==
  \E buffer \in SampleBlocks : \E removeInitialZeros \in BOOLEAN :
    EncoderMessage(s, EncodeCommand(buffer, removeInitialZeros))

EncoderDump(s) ==
  \E maxOutputSize \in 0 .. MaxDumpSize : \E removeInitialZeros \in BOOLEAN :
    EncoderMessage(s, DumpCommand(maxOutputSize, removeInitialZeros))

EncoderEnd(s) == EncoderMessage(s, EndCommand)

\* amplitudes in quarters of a step of the 16-bit scale: a sample is
\* num / AmplitudeDenominator
AmplitudeDenominator == 4 * 32768

\* the amplitudes -1 and 1, their neighbours, and the ones around 0
Amplitudes ==
  { -AmplitudeDenominator, 1 - AmplitudeDenominator, AmplitudeDenominator - 3,
    AmplitudeDenominator - 1, AmplitudeDenominator } \cup (-5 .. 5)

\* the worker of recorder s takes ["encode", [num / AmplitudeDenominator],
\* false]: encode(), web_voice.js:621-647, on a block of one sample
EncoderEncodeSample(s, num) ==
  /\ recorder[s].worker = "alive"
  /\ Len(recorder[s].buffers) < MaxChunks
  /\ recorder' =
       [ recorder EXCEPT
           ![s].buffers =
             Append(@, Chunk(setInt16(
                         encodeAmplitude(num, AmplitudeDenominator)))),
           ![s].outQ = << >> ]
  /\ UNCHANGED << recordTranscribeActive, state, config, usageError, gum,
                  tracks, stream, mediaRecorder, webSocket, queuedMessages,
                  result, early, socket, calls, errorArgs, dropped >>

(***************************************************************************)
(* Specifications.                                                         *)
(***************************************************************************)
\* the steps of the sessions of S, whose callers use the setters of fields
\* and whose transport delivers the close events of closes (pairs of a code
\* and a reason) and the messages of responses
NextOf(S, fields, closes, responses, maxFrames) ==
  \E s \in S :
    \/ \E f \in fields : \E v \in SetterValues(f) : Setter(s, f, v)
    \/ Start(s)
    \/ Stop(s)
    \/ Cancel(s)
    \/ CompleteFinishingEarly(s)
    \/ OnGetUserMediaSuccess(s)
    \/ OnGetUserMediaError(s)
    \/ AudioProcess(s, MaxBuffered)
    \/ TimerTick(s, maxFrames)
    \/ WorkerStep(s)
    \/ OnMediaRecorderData(s)
    \/ OnMediaRecorderEnd(s)
    \/ OnWebSocketOpen(s)
    \/ \E close \in closes : OnWebSocketClose(s, close[1], close[2])
    \/ OnWebSocketError(s)
    \/ \E response \in responses : OnWebSocketMessage(s, response, MaxMessages)

\* several sessions; the callers set the credential, and the transport
\* closes normally with "<eof> done" or abnormally with no reason
Next ==
  NextOf(Sessions, { "apiKey" },
         { << NormalClosure, ReasonEofDone >>, << 1006, ReasonEmpty >> },
         { CHOOSE r \in Responses : r.hasSpks }, MaxFrames)

Spec == Init /\ [][Next]_vars

\* one session; the callers set the credential and the terminal callbacks,
\* and the transport delivers every close event and message
NextOne ==
  NextOf({ 1 }, { "apiKey", "onFinished", "onError" },
         CloseCodes \X CloseReasons, Responses, MaxFrames)

SpecOne == Init /\ [][NextOne]_vars

\* one session; the callers set the credential and any of the four
\* callbacks, and the transport delivers every close event and message
NextCallbacks ==
  NextOf({ 1 },
         { "apiKey", "onStarted", "onPartialResult", "onFinished", "onError" },
         CloseCodes \X CloseReasons, Responses, MaxFrames)

SpecCallbacks == Init /\ [][NextCallbacks]_vars

\* the same, where the browser runs the microtask that stop() queued
SpecOneFair ==
  SpecOne /\ \A s \in Sessions : WF_vars(CompleteFinishingEarly(s))

\* one session whose worker takes every command posted to it, and whose
\* recorder gets every message the worker posts
SpecOneWorkerFair ==
  SpecOne /\ \A s \in Sessions :
               /\ WF_vars(WorkerStep(s))
               /\ WF_vars(OnMediaRecorderData(s))
               /\ WF_vars(OnMediaRecorderEnd(s))

\* one session; the callers set the credential and the callbacks of progress
NextStarted ==
  NextOf({ 1 }, { "apiKey", "onStarted", "onPartialResult" },
         { << NormalClosure, ReasonEofDone >>, << 1006, ReasonEmpty >> },
         Responses, MaxFrames)

SpecStarted == Init /\ [][NextStarted]_vars

\* one session; the callers set the credential and the address of the
\* service
NextUri ==
  NextOf({ 1 }, { "apiKey", "webSocketUri" },
         { << NormalClosure, ReasonEofDone >>, << 1006, ReasonEmpty >> },
         { CHOOSE r \in Responses : r.hasSpks }, MaxFrames)

SpecUri == Init /\ [][NextUri]_vars

\* one session whose transport delivers a sequence of messages
NextMerge ==
  \/ Setter(1, "apiKey", "key")
  \/ Setter(1, "onPartialResult", "function")
  \/ Start(1)
  \/ Stop(1)
  \/ Cancel(1)
  \/ OnGetUserMediaSuccess(1)
  \/ WorkerStep(1)
  \/ OnMediaRecorderEnd(1)
  \/ OnWebSocketOpen(1)
  \/ OnWebSocketClose(1, NormalClosure, ReasonEofDone)
  \/ \E response \in MergeResponses : OnWebSocketMessage(1, response, MaxMerges)

SpecMerge == Init /\ [][NextMerge]_vars

\* one session whose transport delivers a sequence of messages that differ
\* in their words, their metrics and their speakers
NextResult ==
  \/ Setter(1, "apiKey", "key")
  \/ Setter(1, "onPartialResult", "function")
  \/ Start(1)
  \/ Stop(1)
  \/ Cancel(1)
  \/ OnGetUserMediaSuccess(1)
  \/ WorkerStep(1)
  \/ OnMediaRecorderEnd(1)
  \/ OnWebSocketOpen(1)
  \/ OnWebSocketClose(1, NormalClosure, ReasonEofDone)
  \/ \E response \in ResultResponses :
       OnWebSocketMessage(1, response, MaxMerges)

SpecResult == Init /\ [][NextResult]_vars

\* a MediaRecorder constructed on its own, web_voice.js:741-768
InitEncoder ==
  /\ recordTranscribeActive = FALSE
  /\ state = [ s \in Sessions |-> State.Init ]
  /\ config = [ s \in Sessions |-> DefaultConfig ]
  /\ usageError = "none"
  /\ gum = [ s \in Sessions |-> "none" ]
  /\ tracks = [ s \in Sessions |-> "none" ]
  /\ stream = [ s \in Sessions |-> "null" ]
  /\ mediaRecorder = [ s \in Sessions |-> "null" ]
  /\ webSocket = [ s \in Sessions |-> "null" ]
  /\ queuedMessages = [ s \in Sessions |-> NullQueue ]
  /\ result = [ s \in Sessions |-> initialResult ]
  /\ early = [ s \in Sessions |-> FALSE ]
  /\ recorder = [ s \in Sessions |->
                    IF s = 1 THEN NewMediaRecorder ELSE NoRecorder ]
  /\ socket = [ s \in Sessions |-> NoSocket ]
  /\ calls = [ s \in Sessions |-> NoCalls ]
  /\ errorArgs = [ s \in Sessions |-> NoErrorArgs ]
  /\ dropped = [ s \in Sessions |-> 0 ]

NextEncoder == EncoderEncode(1) \/ EncoderDump(1) \/ EncoderEnd(1)

SpecEncoder == InitEncoder /\ [][NextEncoder]_vars

\* the worker encodes blocks of one sample
NextSample ==
  \/ \E num \in Amplitudes : EncoderEncodeSample(1, num)
  \/ EncoderDump(1)
  \/ EncoderEnd(1)

SpecSample == InitEncoder /\ [][NextSample]_vars

(***************************************************************************)
(* The MediaRecorder alone: a caller constructs a recorder on a stream,    *)
(* starts and stops it and listens to its events.  The worker is not       *)
(* terminated.                                                             *)
(***************************************************************************)
\* the blocks that the audio callback delivers: silence, silence and then a
\* sample of amplitude 1, and the amplitudes 1 and -1
CapturedBlocks == { << 0, 0 >>, << 0, 65536 >>, << 65536, -65536 >> }

\* the values of maxOutputSize that the caller passes
RecorderOutputSizes == { 4, 8 }

\* this.removeInitialZeros at web_voice.js:818.  The handler is a function
\* expression, so its this is the node the event is dispatched on, the
\* ScriptProcessorNode, and not the recorder; the node has no property
\* removeInitialZeros, and the value posted is undefined, which encode()
\* takes for false.
processorRemoveInitialZeros == FALSE

\* the recorder of the constructor, web_voice.js:741-768, with the blocks of
\* the encode commands that the worker has not taken yet, the events that
\* were dispatched to the listeners, the clone of the stream, and the counts
\* of blocks, ticks and starts
RecorderAlone ==
  NewMediaRecorder @@
    [ blocks |-> << >>, events |-> << >>, clone |-> "null",
      nBlocks |-> 0, nTicks |-> 0, nStarts |-> 0 ]

\* a step of the recorder s alone, to r
RecorderStep(s, r) ==
  /\ recorder' = [ recorder EXCEPT ![s] = r ]
  /\ usageError' = "none"
  /\ UNCHANGED << recordTranscribeActive, state, config, gum, tracks, stream,
                  mediaRecorder, webSocket, queuedMessages, result, early,
                  socket, calls, errorArgs, dropped >>

\* start(timeslice, maxOutputSize, false, removeInitialZeros),
\* web_voice.js:786-838.  A caller that starts the recorder again passes the
\* maxOutputSize and removeInitialZeros of the first start.
RecorderStart(s, timeslice, maxOutputSize, removeInitialZeros) ==
  /\ recorder[s].nStarts < MaxStarts
  /\ recorder[s].nStarts > 0 =>
       /\ maxOutputSize = recorder[s].maxOutputSize
       /\ removeInitialZeros = recorder[s].removeInitialZeros
  /\ IF recorder[s].state # "inactive"
     THEN Throw("recorder is active")
     ELSE RecorderStep(s,
            [ MediaRecorderStart(recorder[s], timeslice, maxOutputSize,
                                 removeInitialZeros)
                EXCEPT !.clone = "live", !.nStarts = @ + 1 ])

\* processor.onaudioprocess that posts also when the recorder is inactive
RecorderAudioProcessUnchecked(s, buffer) ==
  /\ recorder[s].nStarts > 0
  /\ recorder[s].nBlocks < MaxBlocks
  /\ RecorderStep(s,
       [ recorder[s] EXCEPT
           !.cmdQ = Append(@, "encode"),
           !.blocks = Append(@, [ buffer |-> buffer,
                                  removeInitialZeros |->
                                    processorRemoveInitialZeros ]),
           !.nBlocks = @ + 1 ])

\* processor.onaudioprocess, web_voice.js:813-821, on the block buffer: the
\* handler that the last start() has set
RecorderAudioProcess(s, buffer) ==
  /\ recorder[s].nStarts > 0
  /\ recorder[s].nBlocks < MaxBlocks
  /\ RecorderStep(s,
       IF recorder[s].state = "recording"
       THEN [ recorder[s] EXCEPT
                !.cmdQ = Append(@, "encode"),
                !.blocks = Append(@, [ buffer |-> buffer,
                                       removeInitialZeros |->
                                         processorRemoveInitialZeros ]),
                !.nBlocks = @ + 1 ]
       ELSE recorder[s])

\* the setInterval callback of start(), web_voice.js:830-834
RecorderTimerTick(s) ==
  /\ recorder[s].slicing
  /\ recorder[s].nTicks < MaxTicks
  /\ RecorderStep(s,
       IF recorder[s].state = "recording"
       THEN postEncoderDump([ recorder[s] EXCEPT !.nTicks = @ + 1 ])
       ELSE recorder[s])

\* the message that the command at the head of the queue of r stands for
HeadMessage(r) ==
  IF Head(r.cmdQ) = "encode"
  THEN EncodeCommand(Head(r.blocks).buffer, Head(r.blocks).removeInitialZeros)
  ELSE IF Head(r.cmdQ) = "dump"
  THEN DumpCommand(r.maxOutputSize, r.removeInitialZeros)
  ELSE EndCommand

\* the worker takes its next message, web_voice.js:688-703, and posts its
\* events after the ones that wait
RecorderWorkerStep(s) ==
  /\ recorder[s].worker = "alive"
  /\ recorder[s].cmdQ # << >>
  /\ LET r == recorder[s]
         e == encoderOnMessage(r, HeadMessage(r))
     IN RecorderStep(s,
          [ e EXCEPT !.cmdQ = Tail(@),
                     !.blocks = IF Head(r.cmdQ) = "encode" THEN Tail(@) ELSE @,
                     !.outQ = r.outQ \o e.outQ ])

\* the listener of the worker's messages dispatches the next one as an
\* event of the recorder, web_voice.js:763-767
RecorderDispatch(s) ==
  /\ recorder[s].outQ # << >>
  /\ RecorderStep(s,
       [ recorder[s] EXCEPT !.outQ = Tail(@),
                            !.events = Append(@, Head(recorder[s].outQ)) ])

\* stop(), web_voice.js:860-891, with the tracks of the clone stopped at
\* web_voice.js:877-882
RecorderStop(s) ==
  RecorderStep(s,
    [ MediaRecorderStop(recorder[s]) EXCEPT
        !.clone = IF recorder[s].state = "inactive" THEN @ ELSE "null" ])

\* a MediaRecorder constructed on its own, with its events recorded
InitRecorder ==
  /\ recordTranscribeActive = FALSE
  /\ state = [ s \in Sessions |-> State.Init ]
  /\ config = [ s \in Sessions |-> DefaultConfig ]
  /\ usageError = "none"
  /\ gum = [ s \in Sessions |-> "none" ]
  /\ tracks = [ s \in Sessions |-> "none" ]
  /\ stream = [ s \in Sessions |-> "null" ]
  /\ mediaRecorder = [ s \in Sessions |-> "null" ]
  /\ webSocket = [ s \in Sessions |-> "null" ]
  /\ queuedMessages = [ s \in Sessions |-> NullQueue ]
  /\ result = [ s \in Sessions |-> initialResult ]
  /\ early = [ s \in Sessions |-> FALSE ]
  /\ recorder = [ s \in Sessions |->
                    IF s = 1 THEN RecorderAlone ELSE NoRecorder ]
  /\ socket = [ s \in Sessions |-> NoSocket ]
  /\ calls = [ s \in Sessions |-> NoCalls ]
  /\ errorArgs = [ s \in Sessions |-> NoErrorArgs ]
  /\ dropped = [ s \in Sessions |-> 0 ]

NextRecorder ==
  \/ \E timeslice \in { 0, RecorderTimeSlice_ms } :
       \E maxOutputSize \in RecorderOutputSizes :
         \E removeInitialZeros \in BOOLEAN :
           RecorderStart(1, timeslice, maxOutputSize, removeInitialZeros)
  \/ \E buffer \in CapturedBlocks : RecorderAudioProcess(1, buffer)
  \/ RecorderTimerTick(1)
  \/ RecorderWorkerStep(1)
  \/ RecorderDispatch(1)
  \/ RecorderStop(1)

SpecRecorder == InitRecorder /\ [][NextRecorder]_vars

\* one session whose transport takes long to open and stays open, so that
\* the recorder fills _queuedMessages
NextQueue ==
  \/ Setter(1, "apiKey", "key")
  \/ Start(1)
  \/ Stop(1)
  \/ Cancel(1)
  \/ CompleteFinishingEarly(1)
  \/ OnGetUserMediaSuccess(1)
  \/ AudioProcess(1, MaxBuffered)
  \/ TimerTick(1, MaxFramesQueue)
  \/ WorkerStep(1)
  \/ OnMediaRecorderData(1)
  \/ OnMediaRecorderEnd(1)
  \/ OnWebSocketOpen(1)

SpecQueue == Init /\ [][NextQueue]_vars

(***************************************************************************)
(* The claims.                                                             *)
(***************************************************************************)
TerminalStates == { "Finished", "Error", "Canceled" }

ActiveStates ==
  { "RequestingMedia", "OpeningWebSocket", "Running", "FinishingRecording",
    "FinishingProcessing", "FinishingEarly" }

ActiveSessions == { s \in Sessions : state[s] \in ActiveStates }

\* everything but the marker of a usage error
effectVars ==
  << recordTranscribeActive, state, config, gum, tracks, stream, mediaRecorder,
     webSocket, queuedMessages, result, early, recorder, socket, calls,
     errorArgs, dropped >>

\* C1: in every reachable state at most one session is active (in a state
\* other than Init, Finished, Error, Canceled), and recordTranscribeActive
\* is true exactly when an active session exists; so no late event of a
\* terminated session clears the flag of an active one.
C1_OneActiveSession ==
  /\ Cardinality(ActiveSessions) <= 1
  /\ recordTranscribeActive <=> (ActiveSessions # { })

\* C1 witness: the stale capture grant of a canceled or early-finished
\* session has been delivered (its stream was stopped unused) and another
\* session is active.
C1_Witness ==
  \E s, t \in Sessions :
    /\ s # t
    /\ state[s] \in TerminalStates
    /\ gum[s] = "settled"
    /\ tracks[s] = "stopped"
    /\ recorder[s].state = "none"
    /\ state[t] \in ActiveStates
    /\ recordTranscribeActive

\* the calls of start() on s that the claim says fail
StartIsUsageError(s) ==
  \/ state[s] # "Init"
  \/ \E t \in Sessions \ { s } : state[t] \in ActiveStates
  \/ config[s].apiKey = NullKey

\* C2: start() on a session that is not in Init, start() while another
\* session is active, start() without a credential and every setter on a
\* session that is not in Init throw; a call that throws changes no state,
\* configuration or resource of any session nor the global flag and invokes
\* no callback.
C2_UsageErrorsHaveNoEffect ==
  [][ /\ \A s \in Sessions :
           Start(s) /\ StartIsUsageError(s) => usageError' # "none"
      /\ \A s \in Sessions : \A f \in DOMAIN DefaultConfig :
           \A v \in SetterValues(f) :
             Setter(s, f, v) /\ state[s] # "Init" => usageError' # "none"
      /\ usageError' # "none" => UNCHANGED effectVars ]_vars

\* C2 witness: start() of a second session has just thrown while the first
\* session is active.
C2_Witness ==
  /\ usageError = "only one RecordTranscribe may be active at a time"
  /\ \E s, t \in Sessions :
       s # t /\ state[s] = "Init" /\ config[s].apiKey # NullKey
         /\ state[t] \in ActiveStates

\* 1 when session s has registered callback cb, else 0
Registered(s, cb) == IF config[s][cb] # "null" THEN 1 ELSE 0

\* C3: a session that is in Finished has invoked its onFinished callback
\* exactly once and onError never, a session in Error its onError callback
\* exactly once and onFinished never, and a session in any other state
\* (Canceled included) neither; so onFinished plus onError invocations never
\* exceed one.  A callback is invoked when one is registered.
C3_ExactlyOneTerminalCallback ==
  \A s \in Sessions :
    /\ calls[s].onFinished + calls[s].onError <= 1
    /\ state[s] = "Finished" =>
         /\ calls[s].onFinished = Registered(s, "onFinished")
         /\ calls[s].onError = 0
    /\ state[s] = "Error" =>
         /\ calls[s].onError = Registered(s, "onError")
         /\ calls[s].onFinished = 0
    /\ state[s] \notin { "Finished", "Error" } =>
         /\ calls[s].onFinished = 0
         /\ calls[s].onError = 0

\* C3 witness: a session with both terminal callbacks registered is in
\* Finished after exactly one onFinished.
C3_Witness ==
  \E s \in Sessions :
    /\ state[s] = "Finished"
    /\ config[s].onFinished # "null"
    /\ config[s].onError # "null"
    /\ calls[s].onFinished = 1
    /\ calls[s].onError = 0

\* the lifecycle graph of the claim
LifecycleEdges ==
  { << "Init", "RequestingMedia" >>,
    << "RequestingMedia", "OpeningWebSocket" >>,
    << "OpeningWebSocket", "Running" >>,
    << "Running", "FinishingRecording" >>,
    << "FinishingRecording", "FinishingProcessing" >>,
    << "FinishingProcessing", "Finished" >>,
    << "RequestingMedia", "FinishingEarly" >>,
    << "OpeningWebSocket", "FinishingEarly" >>,
    << "FinishingEarly", "Finished" >> }
  \cup (ActiveStates \X { "Error", "Canceled" })

\* C4: every change of a session's state is an edge of the lifecycle graph:
\* the chain Init, RequestingMedia, OpeningWebSocket, Running,
\* FinishingRecording, FinishingProcessing, Finished, the branch from
\* RequestingMedia or OpeningWebSocket into FinishingEarly and on to
\* Finished, or from an active state to Error or Canceled.  Hence Finished,
\* Error and Canceled are absorbing and no session returns to Init.
C4_LifecycleGraph ==
  [][ \A s \in Sessions :
        state'[s] # state[s] => << state[s], state'[s] >> \in LifecycleEdges ]_vars

\* C4 witness: a session has gone through the whole chain: it sent the
\* terminator (FinishingRecording to FinishingProcessing) and finished on
\* the close of the transport.
C4_Witness ==
  \E s \in Sessions :
    /\ state[s] = "Finished"
    /\ socket[s].readyState = "closed"
    /\ \E i \in 1 .. Len(socket[s].sent) : socket[s].sent[i].kind = "empty"

\* the resources of session s are released in the next state
ReleasedNext(s) ==
  /\ stream'[s] = "null"
  /\ tracks'[s] # "live"
  /\ mediaRecorder'[s] = "null"
  /\ recorder'[s].state # "recording"
  /\ recorder'[s].worker # "alive"
  /\ webSocket'[s] = "null"
  /\ socket'[s].readyState \notin { "connecting", "open" }
  /\ queuedMessages'[s].isNull

\* C5 as claimed: cancel() on a session in any state other than Finished,
\* Error, Canceled leaves it in Canceled with its resources released and the
\* global flag cleared.
C5_CancelFromAnyNonTerminal ==
  [][ \A s \in Sessions :
        Cancel(s) /\ state[s] \notin TerminalStates =>
          /\ state'[s] = "Canceled"
          /\ ReleasedNext(s)
          /\ ~recordTranscribeActive' ]_vars

\* C5 amended: cancel() on a session in any active state (any state other
\* than Init, Finished, Error, Canceled) leaves it in Canceled with its
\* capture and transport resources released and the global flag cleared.
C5_CancelFromActive ==
  [][ \A s \in Sessions :
        Cancel(s) /\ state[s] \in ActiveStates =>
          /\ state'[s] = "Canceled"
          /\ ReleasedNext(s)
          /\ ~recordTranscribeActive' ]_vars

\* C5 witness: a session was canceled while it held a stream, a recorder
\* and a transport, and holds none now.
C5_Witness ==
  \E s \in Sessions :
    /\ state[s] = "Canceled"
    /\ tracks[s] = "stopped"
    /\ recorder[s].worker = "terminated"
    /\ socket[s].readyState = "closing"
    /\ stream[s] = "null" /\ mediaRecorder[s] = "null" /\ webSocket[s] = "null"
    /\ ~recordTranscribeActive

\* C6: cancel() on a session that is already Canceled, Finished or Error
\* changes no state, resource or flag and invokes no callback.
C6_CancelIdempotent ==
  [][ \A s \in Sessions :
        Cancel(s) /\ state[s] \in TerminalStates => UNCHANGED effectVars ]_vars

\* C6 witness: a session is Canceled while another session is active, so
\* that a second cancel() of the first has a flag to leave alone.
C6_Witness ==
  \E s, t \in Sessions :
    /\ state[s] = "Canceled"
    /\ state[t] \in ActiveStates
    /\ mediaRecorder[t] # "null"
    /\ recordTranscribeActive

\* the close reasons of the transport whose tag is eof
EofReasons == { ReasonEofDone, ReasonEof }

\* C7: a close with code 1000 and a reason with tag eof, received in
\* FinishingProcessing, moves the session to Finished with one onFinished
\* and no onError; received in OpeningWebSocket, Running or
\* FinishingRecording it moves the session to Error with status
\* other_asr_error and message "Unexpected EOF received." and no onFinished.
C7_EofClose ==
  [][ \A s \in Sessions : \A reason \in EofReasons :
        OnWebSocketClose(s, 1000, reason) =>
          IF state[s] = "FinishingProcessing"
          THEN /\ state'[s] = "Finished"
               /\ calls'[s].onFinished =
                    calls[s].onFinished + Registered(s, "onFinished")
               /\ calls'[s].onFinished <= 1
               /\ calls'[s].onError = 0
               /\ errorArgs'[s] = errorArgs[s]
          ELSE /\ state[s] \in { "OpeningWebSocket", "Running",
                                "FinishingRecording" }
               /\ state'[s] = "Error"
               /\ errorArgs'[s] =
                    [ status |-> << "other_asr_error" >>,
                      message |-> << "Unexpected EOF received." >> ]
               /\ calls'[s].onError = calls[s].onError + Registered(s, "onError")
               /\ calls'[s].onFinished = 0 ]_vars

\* C7 witness: a session with onFinished registered finished on the close
\* of the transport after it had sent the terminator.
C7_Witness ==
  \E s \in Sessions :
    /\ state[s] = "Finished"
    /\ socket[s].readyState = "closed"
    /\ calls[s].onFinished = 1
    /\ calls[s].onError = 0
    /\ socket[s].sent # << >>
    /\ socket[s].sent[Len(socket[s].sent)].kind = "empty"

\* the decimal digits of the close codes the transport delivers
CodeDigits(code) ==
  CASE code = 1006 -> << "1", "0", "0", "6" >>
    [] code = 1011 -> << "1", "0", "1", "1" >>

\* sub occurs in str as a run of consecutive elements
Contains(str, sub) ==
  \E i \in 0 .. Len(str) - Len(sub) : SubSeq(str, i + 1, i + Len(sub)) = sub

\* C8: a close with a code other than 1000, received by a session in an
\* active state, moves it to Error with status websocket_closed and a
\* message that contains the code, and invokes onError once.
C8_AbnormalClose ==
  [][ \A s \in Sessions : \A code \in CloseCodes \ { 1000 } :
        \A reason \in CloseReasons :
          OnWebSocketClose(s, code, reason) /\ state[s] \in ActiveStates =>
            /\ state'[s] = "Error"
            /\ errorArgs'[s].status = << "websocket_closed" >>
            /\ Contains(errorArgs'[s].message, CodeDigits(code))
            /\ calls'[s].onError = calls[s].onError + Registered(s, "onError")
            /\ calls'[s].onError <= 1
            /\ calls'[s].onFinished = 0 ]_vars

\* C8 witness: a session with onError registered is in Error after a close
\* with code 1006 and an empty reason.
C8_Witness ==
  \E s \in Sessions :
    /\ state[s] = "Error"
    /\ errorArgs[s] =
         [ status |-> << "websocket_closed" >>,
           message |-> << "WebSocket closed: code=", "1", "0", "0", "6",
                          ", reason=" >> ]
    /\ calls[s].onError = 1

\* the smaller of two numbers
Min(a, b) == IF a < b THEN a ELSE b

\* the frames the recorder of session s has emitted are 1, 2, ... in the
\* order of their production; the first n of them
FirstFrames(n) == [ i \in 1 .. n |-> i ]

\* the pending queue of session s holds the first frames produced, at most
\* 100 of them, and every later frame was dropped
QueueHoldsFirstFrames(s) ==
  IF state[s] = "OpeningWebSocket"
  THEN /\ ~queuedMessages[s].isNull
       /\ Len(queuedMessages[s].items) <= 100
       /\ queuedMessages[s].items = FirstFrames(Min(recorder[s].nEmitted, 100))
       /\ dropped[s] = recorder[s].nEmitted - Len(queuedMessages[s].items)
  ELSE queuedMessages[s].items = << >>

\* C9: the pending queue never holds more than 100 frames.  In
\* OpeningWebSocket a frame is appended while the queue holds fewer than 100
\* frames and is otherwise dropped, leaving the queue, the state and the
\* transport as they were; so the queue holds the first frames produced, at
\* most 100, in production order.
C9_PendingQueueBounded ==
  [][ \A s \in Sessions :
        /\ QueueHoldsFirstFrames(s)'
        /\ OnMediaRecorderData(s) /\ state[s] = "OpeningWebSocket" =>
             IF Len(queuedMessages[s].items) < 100
             THEN /\ queuedMessages'[s].items =
                       Append(queuedMessages[s].items, recorder'[s].nEmitted)
                  /\ dropped'[s] = dropped[s]
             ELSE /\ queuedMessages'[s] = queuedMessages[s]
                  /\ dropped'[s] = dropped[s] + 1
                  /\ state'[s] = state[s]
                  /\ socket'[s] = socket[s]
                  /\ calls'[s] = calls[s] ]_vars

\* C9 witness: more than 100 frames were produced before the transport
\* opened, and the queue holds 100.
C9_Witness ==
  \E s \in Sessions :
    /\ state[s] = "OpeningWebSocket"
    /\ recorder[s].nEmitted > 100
    /\ Len(queuedMessages[s].items) = 100
    /\ dropped[s] >= 1

IsAudio(m) == m.kind = "audio"

\* the audio frames session s has sent on its transport, in sending order
AudioFramesSent(s) ==
  LET audio == SelectSeq(socket[s].sent, IsAudio)
  IN [ i \in 1 .. Len(audio) |-> audio[i].frame ]

\* the audio frames sent are emitted frames, in production order and without
\* duplicates, and while frames are forwarded only the dropped ones miss
SentInProductionOrder(s) ==
  LET sent == AudioFramesSent(s)
  IN /\ \A i \in 1 .. Len(sent) : sent[i] \in 1 .. recorder[s].nEmitted
     /\ \A i \in 1 .. Len(sent) - 1 : sent[i] < sent[i + 1]
     /\ state[s] \in { "Running", "FinishingRecording" } =>
          { sent[i] : i \in 1 .. Len(sent) } =
            (1 .. recorder[s].nEmitted) \ (101 .. 100 + dropped[s])

\* C10: the audio frames a session sends are a subsequence of the frames its
\* recorder emitted, in the same order and without duplicates: on the open
\* of the transport every queued frame is sent in FIFO order, before any
\* frame produced in Running, and every frame produced in Running or
\* FinishingRecording is sent next, in production order.
C10_FramesInOrder ==
  [][ \A s \in Sessions :
        /\ SentInProductionOrder(s)'
        /\ OnWebSocketOpen(s) /\ state[s] = "OpeningWebSocket" =>
             /\ AudioFramesSent(s) = << >>
             /\ AudioFramesSent(s)' = queuedMessages[s].items
             /\ state'[s] = "Running"
        /\ OnMediaRecorderData(s)
             /\ state[s] \in { "Running", "FinishingRecording" } =>
             AudioFramesSent(s)' =
               Append(AudioFramesSent(s), recorder'[s].nEmitted) ]_vars

\* C10 witness: a full queue was flushed, a frame was dropped, and a frame
\* produced in Running was sent after the queued ones.
C10_Witness ==
  \E s \in Sessions :
    /\ state[s] = "Running"
    /\ dropped[s] >= 1
    /\ Len(AudioFramesSent(s)) > 100
    /\ AudioFramesSent(s)[100] = 100
    /\ AudioFramesSent(s)[101] > 101

IsJson(m) == m.kind = "json"

\* the handshake messages session s has sent
HandshakesSent(s) == SelectSeq(socket[s].sent, IsJson)

\* what session s has sent starts with its one handshake, and its started
\* callback and partial-result callbacks follow the handshake
HandshakeFirst(s) ==
  /\ Len(HandshakesSent(s)) <= 1
  /\ socket[s].sent # << >> =>
       socket[s].sent[1] = JsonMessage(HandshakeRequest(config[s]))
  /\ calls[s].onStarted = Len(HandshakesSent(s)) * Registered(s, "onStarted")
  /\ calls[s].onPartialResult > 0 =>
       /\ Len(HandshakesSent(s)) = 1
       /\ calls[s].onStarted = Registered(s, "onStarted")

\* C11: the open of the transport is acted on at most once per session and
\* only in OpeningWebSocket: the handshake is sent exactly once, as the
\* first message on the transport, the session then enters Running, and
\* the started callback fires at most once, after the handshake and before
\* every partial-result callback.
C11_HandshakeOnce ==
  [][ \A s \in Sessions :
        /\ HandshakeFirst(s)'
        /\ OnWebSocketOpen(s) =>
             IF state[s] = "OpeningWebSocket"
             THEN /\ socket[s].sent = << >>
                  /\ Head(socket'[s].sent) = JsonMessage(HandshakeRequest(config[s]))
                  /\ state'[s] = "Running"
                  /\ calls'[s].onStarted = Registered(s, "onStarted")
                  /\ calls'[s].onPartialResult = 0
             ELSE /\ socket'[s].sent = socket[s].sent
                  /\ state'[s] = state[s]
                  /\ calls'[s] = calls[s]
        /\ ~OnWebSocketOpen(s) => HandshakesSent(s)' = HandshakesSent(s) ]_vars

\* C11 witness: a session sent its handshake before a queued frame, fired
\* the started callback once, and has since fired a partial-result callback.
C11_Witness ==
  \E s \in Sessions :
    /\ Len(socket[s].sent) >= 2
    /\ socket[s].sent[1].kind = "json"
    /\ socket[s].sent[2].kind = "audio"
    /\ calls[s].onStarted = 1
    /\ calls[s].onPartialResult >= 1

\* the states in which a session accepts a message of the service
MessageStates == { "Running", "FinishingRecording", "FinishingProcessing" }

\* C12: a merge into the running Result removes and moves no final word
\* that is in the Result: every final word keeps its place; and the words
\* the merge contributes are the last words of the Result, the finals of the
\* merge before its non-finals, each in the order of the message.
C12_MergeKeepsFinals ==
  [][ \A s \in Sessions : \A response \in MergeResponses :
        OnWebSocketMessage(s, response, MaxMerges)
          /\ state[s] \in MessageStates =>
          LET old == result[s].words
              new == result'[s].words
              nf == Len(response.fw)
              nn == Len(response.nfw)
              base == Len(new) - nf - nn
          IN /\ base >= 0
             /\ base <= Len(old)
             /\ \A i \in 1 .. Len(old) :
                  old[i].is_final => i <= base /\ new[i] = old[i]
             /\ \A i \in 1 .. base : new[i] = old[i] /\ new[i].is_final
             /\ \A i \in 1 .. nf :
                  /\ new[base + i].is_final
                  /\ new[base + i].text = response.fw[i].t
                  /\ new[base + i].start_ms = response.fw[i].s
             /\ \A i \in 1 .. nn :
                  /\ ~new[base + nf + i].is_final
                  /\ new[base + nf + i].text = response.nfw[i].t
                  /\ new[base + nf + i].start_ms = response.nfw[i].s ]_vars

\* C12 witness: after three merges the Result holds the finals of the first
\* two and the words of the third, whose non-finals replaced earlier ones.
C12_Witness ==
  \E s \in Sessions :
    /\ socket[s].received = 3
    /\ Len(result[s].words) = 5
    /\ result[s].words[1].is_final /\ result[s].words[1].text = "a"
    /\ result[s].words[2].is_final /\ result[s].words[2].text = "a"
    /\ result[s].words[3].is_final /\ result[s].words[3].text = "b"
    /\ ~result[s].words[4].is_final /\ result[s].words[4].text = "c"
    /\ ~result[s].words[5].is_final /\ result[s].words[5].text = "a"

RECURSIVE ConcatBytes(_)
\* the bytes of a sequence of byte sequences, one after the other
ConcatBytes(seqs) ==
  IF seqs = << >> THEN << >>
  ELSE ConcatBytes(SubSeq(seqs, 1, Len(seqs) - 1)) \o seqs[Len(seqs)]

\* the bytes of the chunks first .. last of chunks
ChunkBytes(chunks, first, last) ==
  ConcatBytes([ i \in 1 .. (last - first + 1) |-> chunks[first + i - 1].bytes ])

RECURSIVE IsGrouping(_, _, _, _)
\* frames are the chunks after the first done of chunks, cut into runs of
\* whole consecutive chunks, where a run of two or more chunks has at most
\* maxOutputSize bytes
IsGrouping(frames, chunks, done, maxOutputSize) ==
  IF frames = << >> THEN done = Len(chunks)
  ELSE \E last \in done .. Len(chunks) :
         /\ Head(frames) = ChunkBytes(chunks, done + 1, last)
         /\ last - done >= 2 => Len(Head(frames)) <= maxOutputSize
         /\ IsGrouping(Tail(frames), chunks, last, maxOutputSize)

\* the output buffers the worker of recorder s posts in the next state
FramesPosted(s) ==
  [ i \in 1 .. Len(recorder'[s].outQ) |-> recorder'[s].outQ[i].frame ]

\* C13: for every list of buffered chunks and every maxOutputSize, the
\* frames of dump() are runs of whole consecutive chunks (no chunk is split,
\* also one that alone exceeds maxOutputSize), their concatenation is the
\* concatenation of all buffered chunks, every frame built from two or more
\* chunks has at most maxOutputSize bytes, and the buffer is empty after.
C13_DumpWholeChunks ==
  [][ \A maxOutputSize \in 0 .. MaxDumpSize : \A removeInitialZeros \in BOOLEAN :
        EncoderMessage(1, DumpCommand(maxOutputSize, removeInitialZeros)) =>
          /\ \A i \in 1 .. Len(recorder'[1].outQ) :
               recorder'[1].outQ[i].type = "data"
          /\ IsGrouping(FramesPosted(1), recorder[1].buffers, 0, maxOutputSize)
          /\ ConcatBytes(FramesPosted(1)) =
               ChunkBytes(recorder[1].buffers, 1, Len(recorder[1].buffers))
          /\ recorder'[1].buffers = << >> ]_vars

\* C13 witness: a dump of three chunks of 2, 2 and 4 bytes returned a frame
\* of the first two chunks and a frame of the third.
C13_Witness ==
  /\ recorder[1].buffers = << >>
  /\ Len(recorder[1].outQ) = 2
  /\ recorder[1].outQ[1] = DataEvent(<< 0, 128, 0, 0 >>)
  /\ recorder[1].outQ[2] = DataEvent(<< 255, 127, 0, 128 >>)

\* the 16-bit values that encode the amplitude n / 65536: 32767 for 1.0,
\* -32768 for -1.0, 0 for 0, and else a whole number less than 1 away from
\* the amplitude times 32768
ExpectedSamples(n) ==
  CASE n = 65536 -> { 32767 }
    [] n = -65536 -> { -32768 }
    [] n = 0 -> { 0 }
    [] OTHER -> { v \in (n \div 2 - 1) .. (n \div 2 + 1) :
                    /\ v \in -32768 .. 32767
                    /\ 2 * v - 2 < n /\ n < 2 * v + 2 }

\* the signed value of two bytes, the low one first
LittleEndianValue(low, high) ==
  IF high >= 128 THEN low + 256 * high - 65536 ELSE low + 256 * high

\* bytes are the little-endian 16-bit encoding of the samples of buffer
IsEncodingOf(bytes, buffer) ==
  /\ Len(bytes) = 2 * Len(buffer)
  /\ \A i \in 1 .. Len(buffer) :
       /\ bytes[2 * i - 1] \in 0 .. 255
       /\ bytes[2 * i] \in 0 .. 255
       /\ LittleEndianValue(bytes[2 * i - 1], bytes[2 * i])
            \in ExpectedSamples(buffer[i])

\* C14: encode() without the removal of leading silence buffers the
\* little-endian 16-bit encoding of its block, two bytes per sample, after
\* the chunks of the earlier blocks, with 32767 for amplitude 1.0 and -32768
\* for amplitude -1.0; and a dump of one or more buffered chunks with
\* maxOutputSize at least their total length posts one frame, their
\* concatenation in the order of the encodes.
C14_EncodeThenDump ==
  [][ /\ \A buffer \in SampleBlocks :
           EncoderMessage(1, EncodeCommand(buffer, FALSE)) =>
             LET old == recorder[1].buffers
                 new == recorder'[1].buffers
             IN /\ Len(new) = Len(old) + 1
                /\ SubSeq(new, 1, Len(old)) = old
                /\ new[Len(new)].length = 2 * Len(buffer)
                /\ IsEncodingOf(new[Len(new)].bytes, buffer)
      /\ \A maxOutputSize \in 0 .. MaxDumpSize : \A removeInitialZeros \in BOOLEAN :
           LET old == recorder[1].buffers
               all == ChunkBytes(old, 1, Len(old))
           IN EncoderMessage(1, DumpCommand(maxOutputSize, removeInitialZeros))
                /\ old # << >> /\ maxOutputSize >= Len(all) =>
                recorder'[1].outQ = << DataEvent(all) >> ]_vars

\* C14 witness: the blocks (1.0, -1.0) and (-1.0) were encoded in this order
\* and dumped as one frame.
C14_Witness ==
  recorder[1].outQ = << DataEvent(<< 255, 127, 0, 128, 0, 128 >>) >>

CaptureStates == { "OpeningWebSocket", "Running", "FinishingRecording" }

TransportStates ==
  { "OpeningWebSocket", "Running", "FinishingRecording", "FinishingProcessing" }

\* the handles of session s match its state
HandlesMatchState(s) ==
  /\ stream[s] # "null" <=> state[s] \in CaptureStates
  /\ tracks[s] = "live" <=> state[s] \in CaptureStates
  /\ mediaRecorder[s] # "null" <=> state[s] \in CaptureStates
  /\ recorder[s].worker = "alive" <=> state[s] \in CaptureStates
  /\ recorder[s].listeners <=> state[s] \in CaptureStates
  /\ state[s] \in { "OpeningWebSocket", "Running" } =>
       recorder[s].state = "recording"
  /\ webSocket[s] # "null" <=> state[s] \in TransportStates
  /\ socket[s].readyState \in { "connecting", "open" } <=>
       state[s] \in TransportStates
  /\ ~queuedMessages[s].isNull <=> state[s] = "OpeningWebSocket"

\* what session s released stays released
ReleasedOnce(s) ==
  /\ tracks[s] = "stopped" => tracks'[s] = "stopped"
  /\ recorder[s].worker = "terminated" => recorder'[s].worker = "terminated"
  /\ socket[s].readyState \in { "closing", "closed" } =>
       socket'[s].readyState \in { "closing", "closed" }

\* C15: the handles of a session always match its state: stream, recorder
\* and worker are held exactly in OpeningWebSocket, Running and
\* FinishingRecording (the recorder recording in the first two), the
\* transport exactly in these and FinishingProcessing, the pending queue
\* exactly in OpeningWebSocket; so nothing is held in FinishingEarly or a
\* terminal state, what was released stays released, and a handler finds the
\* handle it uses.
C15_HandlesMatchState ==
  [][ \A s \in Sessions : HandlesMatchState(s)' /\ ReleasedOnce(s) ]_vars

\* C15, where it fails: a session is in RequestingMedia and holds a live
\* stream and a recording recorder.
C15_Violation ==
  \E s \in Sessions :
    /\ state[s] = "RequestingMedia"
    /\ tracks[s] = "live"
    /\ recorder[s].state = "recording"
    /\ webSocket[s] = "null"

IsEmptyMessage(m) == m.kind = "empty"

\* the empty messages session s has sent
TerminatorsSent(s) == SelectSeq(socket[s].sent, IsEmptyMessage)

\* session s sent at most one empty message, as its last message and after
\* every frame its recorder produced; every output buffer that the worker of
\* a session would post has bytes
TerminatorLast(s) ==
  /\ Len(TerminatorsSent(s)) <= 1
  /\ Len(TerminatorsSent(s)) = 1 =>
       /\ state[s] \in { "FinishingProcessing" } \cup TerminalStates
       /\ socket[s].sent[Len(socket[s].sent)] = EmptyMessage
       /\ recorder[s].nEmitted = recorder[s].nFrames
       /\ { AudioFramesSent(s)[i] : i \in 1 .. Len(AudioFramesSent(s)) } =
            (1 .. recorder[s].nFrames) \ (101 .. 100 + dropped[s])
  /\ LET outputBuffers ==
           dump(recorder[s].buffers, recorder[s].maxOutputSize,
                recorder[s].removeInitialZeros, recorder[s].initialZeros)
     IN \A i \in 1 .. Len(outputBuffers) :
          /\ outputBuffers[i] # << >>
          /\ \A j \in 1 .. Len(outputBuffers[i]) : outputBuffers[i][j].length > 0

\* C16: the empty terminator is sent at most once per session, and only by
\* the end event of the recorder arriving in FinishingRecording, which
\* releases the capture and moves the session to FinishingProcessing; it
\* follows every audio frame of the session, those of the dump of stop()
\* included, nothing is sent after it, and no audio frame is empty.
C16_TerminatorOnce ==
  [][ \A s \in Sessions :
        /\ TerminatorLast(s)'
        /\ IF OnMediaRecorderEnd(s) /\ state[s] = "FinishingRecording"
           THEN /\ TerminatorsSent(s) = << >>
                /\ socket'[s].sent = Append(socket[s].sent, EmptyMessage)
                /\ recorder[s].cmdQ = << >>
                /\ recorder[s].buffers = << >>
                /\ recorder[s].outQ = << EndEvent >>
                /\ state'[s] = "FinishingProcessing"
                /\ stream'[s] = "null" /\ tracks'[s] = "stopped"
                /\ mediaRecorder'[s] = "null"
                /\ recorder'[s].worker = "terminated"
           ELSE TerminatorsSent(s)' = TerminatorsSent(s) ]_vars

\* C16 witness: a session sent its handshake, a frame of a timed dump, the
\* frame of the dump of stop() and then the terminator.
C16_Witness ==
  \E s \in Sessions :
    /\ state[s] = "FinishingProcessing"
    /\ Len(socket[s].sent) = 4
    /\ socket[s].sent[2] = AudioMessage(1)
    /\ socket[s].sent[3] = AudioMessage(2)
    /\ socket[s].sent[4] = EmptyMessage

\* C17: stop() in RequestingMedia or OpeningWebSocket releases every
\* resource and leaves the session in FinishingEarly, with no callback
\* invoked in the call; the completion it scheduled then moves the session
\* to Finished with one finished callback, unless cancel() ran first, when
\* the session is Canceled and the completion does nothing.  FinishingEarly
\* is never left for Error, and it is always left, for Finished or Canceled.
C17_StopEarly ==
  /\ [][ \A s \in Sessions :
           /\ Stop(s) /\ state[s] \in { "RequestingMedia", "OpeningWebSocket" } =>
                /\ state'[s] = "FinishingEarly"
                /\ ReleasedNext(s)
                /\ calls'[s] = calls[s]
                /\ early'[s]
           /\ CompleteFinishingEarly(s) =>
                IF state[s] = "FinishingEarly"
                THEN /\ state'[s] = "Finished"
                     /\ calls'[s].onFinished = Registered(s, "onFinished")
                     /\ calls[s].onFinished = 0
                     /\ calls'[s].onError = 0
                ELSE /\ state[s] = "Canceled"
                     /\ state'[s] = "Canceled"
                     /\ calls'[s] = calls[s]
                     /\ recordTranscribeActive' = recordTranscribeActive
           /\ state[s] = "FinishingEarly" =>
                /\ early[s]
                /\ state'[s] \in { "FinishingEarly", "Finished", "Canceled" } ]_vars
  /\ \A s \in Sessions :
       state[s] = "FinishingEarly" ~> state[s] \in { "Finished", "Canceled" }

\* C17 witness: a session with onFinished registered was stopped while it
\* held a stream, a recorder and a transport that had not opened, and
\* finished with one finished callback.
C17_Witness ==
  \E s \in Sessions :
    /\ state[s] = "Finished"
    /\ config[s].onFinished # "null"
    /\ calls[s].onFinished = 1
    /\ tracks[s] = "stopped"
    /\ recorder[s].worker = "terminated"
    /\ socket[s].readyState = "closing"
    /\ socket[s].sent = << >>

\* C18: stop() in Running moves the session to FinishingRecording at once
\* and stops the recorder, which posts a last dump and the end command.
\* FinishingRecording is left for FinishingProcessing by the end event of
\* the recorder, and otherwise only by cancel(), a close or an error of the
\* transport; while the worker takes its commands the session does not stay
\* in FinishingRecording forever.  From FinishingProcessing a close with
\* code 1000 and tag eof moves the session to Finished.
C18_StopRunning ==
  /\ [][ \A s \in Sessions :
           /\ Stop(s) /\ state[s] = "Running" =>
                /\ state'[s] = "FinishingRecording"
                /\ recorder[s].state = "recording"
                /\ recorder'[s].state = "inactive"
                /\ recorder'[s].cmdQ = recorder[s].cmdQ \o << "dump", "end" >>
           /\ state[s] = "FinishingRecording" /\ state'[s] # state[s] =>
                \/ state'[s] = "FinishingProcessing" /\ OnMediaRecorderEnd(s)
                \/ state'[s] = "Canceled" /\ Cancel(s)
                \/ /\ state'[s] = "Error"
                   /\ \/ OnWebSocketError(s)
                      \/ \E code \in CloseCodes : \E reason \in CloseReasons :
                           OnWebSocketClose(s, code, reason)
           /\ \A reason \in EofReasons :
                OnWebSocketClose(s, NormalClosure, reason)
                  /\ state[s] = "FinishingProcessing" =>
                  state'[s] = "Finished" ]_vars
  /\ \A s \in Sessions :
       state[s] = "FinishingRecording" ~>
         state[s] \in { "FinishingProcessing", "Error", "Canceled" }

\* C18 witness: a session that was stopped in Running sent every frame and
\* the terminator, and finished when the service closed the transport.
C18_Witness ==
  \E s \in Sessions :
    /\ state[s] = "Finished"
    /\ socket[s].readyState = "closed"
    /\ recorder[s].nFrames >= 1
    /\ Len(AudioFramesSent(s)) = recorder[s].nFrames
    /\ TerminatorsSent(s) = << EmptyMessage >>

\* what an input that is not accepted leaves alone: the state, the Result,
\* the queue, the flag, the messages sent and the callbacks invoked
Ignored ==
  /\ state' = state
  /\ result' = result
  /\ queuedMessages' = queuedMessages
  /\ recordTranscribeActive' = recordTranscribeActive
  /\ \A t \in Sessions : socket'[t].sent = socket[t].sent
  /\ calls' = calls
  /\ errorArgs' = errorArgs

\* the handles of capture and transport stay as they are
HandlesKept ==
  /\ stream' = stream
  /\ mediaRecorder' = mediaRecorder
  /\ webSocket' = webSocket
  /\ \A t \in Sessions : /\ recorder'[t].state = recorder[t].state
                         /\ recorder'[t].worker = recorder[t].worker
                         /\ recorder'[t].cmdQ = recorder[t].cmdQ

\* an event of the transport or the end event of the recorder can reach the
\* session only in a state that accepts it: the handlers go with the handles
StaleEventsUndeliverable ==
  \A s \in Sessions :
    /\ webSocket[s] # "null" /\ socket[s].readyState = "connecting" =>
         state[s] = "OpeningWebSocket"
    /\ webSocket[s] # "null" /\ socket[s].readyState = "open" =>
         state[s] \in MessageStates
    /\ webSocket[s] # "null" => state[s] \in TransportStates
    /\ (/\ recorder[s].listeners
        /\ recorder[s].outQ # << >>
        /\ Head(recorder[s].outQ).type = "end") =>
         state[s] = "FinishingRecording"

\* C19: an input that arrives in a state where it is not accepted changes
\* no state, Result, queue or flag, sends nothing and invokes no callback:
\* a grant or a denial of the capture outside RequestingMedia, an open
\* outside OpeningWebSocket, a message outside Running, FinishingRecording
\* and FinishingProcessing, the end event outside FinishingRecording, a
\* close or an error outside the states with a transport, and stop()
\* outside RequestingMedia, OpeningWebSocket and Running.  A stale grant
\* releases the stream it brings and does nothing else.
C19_StaleInputsIgnored ==
  /\ [][ \A s \in Sessions :
           /\ OnGetUserMediaSuccess(s) /\ state[s] # "RequestingMedia" =>
                /\ Ignored /\ HandlesKept
                /\ tracks'[s] = "stopped"
                /\ \A t \in Sessions \ { s } : tracks'[t] = tracks[t]
           /\ OnGetUserMediaError(s) /\ state[s] # "RequestingMedia" =>
                Ignored /\ HandlesKept /\ tracks' = tracks
           /\ OnWebSocketOpen(s) /\ state[s] # "OpeningWebSocket" =>
                Ignored /\ HandlesKept /\ tracks' = tracks
           /\ (\E response \in Responses :
                 OnWebSocketMessage(s, response, MaxMessages))
                /\ state[s] \notin MessageStates =>
                Ignored /\ HandlesKept /\ tracks' = tracks
           /\ OnMediaRecorderEnd(s) /\ state[s] # "FinishingRecording" =>
                Ignored /\ HandlesKept /\ tracks' = tracks
           /\ (\/ OnWebSocketError(s)
               \/ \E code \in CloseCodes : \E reason \in CloseReasons :
                    OnWebSocketClose(s, code, reason))
                /\ state[s] \notin TransportStates =>
                Ignored /\ HandlesKept /\ tracks' = tracks
           /\ Stop(s)
                /\ state[s] \notin { "RequestingMedia", "OpeningWebSocket",
                                     "Running" } =>
                UNCHANGED effectVars ]_vars
  /\ []StaleEventsUndeliverable

\* C19 witness: the capture was granted to a session that had left
\* RequestingMedia; the stream is released and the session holds nothing.
C19_Witness ==
  \E s \in Sessions :
    /\ gum[s] = "settled"
    /\ tracks[s] = "stopped"
    /\ state[s] \in { "FinishingEarly", "Finished", "Canceled" }
    /\ recorder[s] = NoRecorder
    /\ socket[s] = NoSocket
    /\ \E t \in Sessions \ { s } : state[t] = "RequestingMedia"

\* a block whose samples all encode to 0
Silent(buffer) == \A i \in 1 .. Len(buffer) : encodeSample(buffer[i]) = 0

\* the place of the first sample of the block that does not encode to 0
FirstSound(buffer) ==
  CHOOSE i \in 1 .. Len(buffer) :
    /\ encodeSample(buffer[i]) # 0
    /\ \A j \in 1 .. (i - 1) : encodeSample(buffer[j]) = 0

\* the steps that encode a block with removeInitialZeros set while the
\* stream is in its prefix of zeros
SilentPrefixEncode(buffer) ==
  /\ EncoderMessage(1, EncodeCommand(buffer, TRUE))
  /\ recorder[1].initialZeros

\* with removeInitialZeros set, a block of zeros in the prefix of zeros is
\* discarded and leaves the flag set; a block with a sample that is not zero
\* is buffered and clears the flag; only "end" sets the flag again
SilenceFlagKept ==
  [][ /\ \A buffer \in SampleBlocks :
           SilentPrefixEncode(buffer) =>
             IF Silent(buffer)
             THEN /\ recorder'[1].buffers = recorder[1].buffers
                  /\ recorder'[1].initialZeros
             ELSE /\ Len(recorder'[1].buffers) = Len(recorder[1].buffers) + 1
                  /\ ~recorder'[1].initialZeros
      /\ ~recorder[1].initialZeros /\ recorder'[1].initialZeros =>
           EncoderEnd(1) ]_vars

\* C20: with removeInitialZeros set and the stream in its prefix of zeros,
\* encode() discards a block of zeros and keeps the flag set; of the first
\* block with a sample that is not zero it buffers the part that starts at
\* that sample, and it clears the flag, which stays cleared until "end".
C20_LeadingSilenceRemoved ==
  [][ /\ \A buffer \in SampleBlocks :
           SilentPrefixEncode(buffer) =>
             IF Silent(buffer)
             THEN /\ recorder'[1].buffers = recorder[1].buffers
                  /\ recorder'[1].initialZeros
             ELSE /\ recorder'[1].buffers =
                       Append(recorder[1].buffers,
                              Chunk(encodeArray(
                                SubSeq(buffer, FirstSound(buffer),
                                       Len(buffer)))))
                  /\ ~recorder'[1].initialZeros
      /\ ~recorder[1].initialZeros /\ recorder'[1].initialZeros =>
           EncoderEnd(1) ]_vars

\* the first block buffered by a stream whose flag was cleared begins with a
\* sample of zero
C20_Violation ==
  /\ ~recorder[1].initialZeros
  /\ Len(recorder[1].buffers) = 1
  /\ recorder[1].buffers[1] = Chunk(<< 0, 0, 255, 127 >>)

\* the events of r since the last end event before the place i
SameRecording(ev, i, j) ==
  /\ i < j
  /\ \A k \in i .. j : ev[k].type = "data"

\* a frame that holds a sample other than zero
HasSound(frame) == \E k \in 1 .. Len(frame) : frame[k] # 0

\* the data event at i is the first of its recording that holds any bytes
FirstBytes(ev, i) ==
  /\ ev[i].type = "data"
  /\ ev[i].frame # << >>
  /\ \A k \in 1 .. (i - 1) :
       SameRecording(ev, k, i) => ev[k].frame = << >>

\* C21: a recorder started with removeInitialZeros emits no initial zero
\* samples: the first bytes of a recording begin with a sample other than
\* zero.  A dump that finds nothing buffered while the stream is in its
\* prefix of zeros emits one empty frame, and once a sample other than zero
\* was emitted no empty frame follows in the same recording.
C21_InitialZerosRemoved ==
  /\ [](recorder[1].removeInitialZeros =>
          \A i \in 1 .. Len(recorder[1].events) :
            LET ev == recorder[1].events
            IN /\ FirstBytes(ev, i) =>
                    ~(ev[i].frame[1] = 0 /\ ev[i].frame[2] = 0)
               /\ \A j \in 1 .. Len(ev) :
                    SameRecording(ev, i, j) /\ HasSound(ev[i].frame) =>
                      ev[j].frame # << >>)
  /\ [][ (/\ RecorderWorkerStep(1)
          /\ recorder[1].removeInitialZeros
          /\ Head(recorder[1].cmdQ) = "dump"
          /\ recorder[1].buffers = << >>
          /\ recorder[1].initialZeros) =>
           recorder'[1].outQ = Append(recorder[1].outQ, DataEvent(<< >>)) ]_vars

\* a recorder started with removeInitialZeros has emitted a frame that
\* begins with a zero sample, and an empty frame after a frame with sound
C21_Violation ==
  /\ recorder[1].removeInitialZeros
  /\ recorder[1].nStarts = 1
  /\ recorder[1].events =
       << DataEvent(<< 0, 0, 255, 127 >>), DataEvent(<< >>), EndPosted >>

\* the events of the recorder, dispatched or waiting, in the order in which
\* the worker posted them
EventsPosted(r) == r.events \o r.outQ

EndEvents(ev) == { i \in 1 .. Len(ev) : ev[i].type = "end" }

\* the recordings of r that were stopped
Stopped(r) == IF r.state = "recording" THEN r.nStarts - 1 ELSE r.nStarts

\* the bytes of the data events of ev, in order
RECURSIVE EventBytes(_)
EventBytes(ev) ==
  IF ev = << >> THEN << >>
  ELSE (IF Head(ev).type = "data" THEN Head(ev).frame ELSE << >>)
         \o EventBytes(Tail(ev))

\* stop() on a recording recorder stops it and its timer and posts the last
\* dump and the end command; while the recorder is inactive no command is
\* posted, stop() does nothing and emits nothing, and start() on a recording
\* recorder throws and changes nothing.  The worker posts the bytes of
\* every buffered chunk, in their order, at each dump, so that nothing is
\* buffered when it takes the end command, for which it posts one end
\* event; each stopped recording has one end event, and no data event
\* follows the end event of a recorder that is not started again.
StopFlushes ==
  /\ [][ /\ RecorderStop(1) /\ recorder[1].state = "recording" =>
              /\ recorder'[1].state = "inactive"
              /\ ~recorder'[1].slicing
              /\ recorder'[1].cmdQ = recorder[1].cmdQ \o << "dump", "end" >>
              /\ recorder'[1].events = recorder[1].events
              /\ recorder'[1].outQ = recorder[1].outQ
         /\ RecorderStop(1) /\ recorder[1].state = "inactive" =>
              UNCHANGED effectVars
         /\ recorder[1].state = "inactive" /\ recorder'[1].state = "inactive" =>
              \/ recorder'[1].cmdQ = recorder[1].cmdQ
              \/ recorder'[1].cmdQ = Tail(recorder[1].cmdQ)
         /\ (\E timeslice \in { 0, RecorderTimeSlice_ms } :
               \E maxOutputSize \in RecorderOutputSizes :
                 \E removeInitialZeros \in BOOLEAN :
                   RecorderStart(1, timeslice, maxOutputSize,
                                 removeInitialZeros))
              /\ recorder[1].state = "recording" =>
              UNCHANGED effectVars /\ usageError' = "recorder is active"
         /\ RecorderWorkerStep(1) /\ Head(recorder[1].cmdQ) = "dump" =>
              /\ recorder'[1].buffers = << >>
              /\ EventBytes(EventsPosted(recorder'[1])) =
                   EventBytes(EventsPosted(recorder[1]))
                     \o ChunkBytes(recorder[1].buffers, 1,
                                   Len(recorder[1].buffers))
         /\ RecorderWorkerStep(1) /\ Head(recorder[1].cmdQ) = "end" =>
              /\ recorder[1].buffers = << >>
              /\ recorder'[1].outQ = Append(recorder[1].outQ, EndPosted) ]_vars
  /\ [](LET r == recorder[1]
            ev == EventsPosted(r)
        IN /\ Cardinality(EndEvents(ev)) + Pending(r.cmdQ, "end") = Stopped(r)
           /\ r.nStarts = 1 => EndEvents(ev) \subseteq { Len(ev) }
           /\ r.nStarts = 1 /\ EndEvents(ev) # { } => r.cmdQ = << >>)

\* C22, with the capture released in the call of stop(): stop() on a
\* recording recorder stops the pulling of samples and the timer, stops the
\* tracks of its clone of the stream and gives it up, all within the call;
\* the remaining frames follow as data events in the order of production,
\* and then one end event, with no data event after it; no encode and no
\* timer dump is posted after stop(); stop() on an inactive recorder does
\* nothing, and start() on a recording recorder fails and changes nothing.
C22_StopFlushesReleased ==
  /\ StopFlushes
  /\ [][ RecorderStop(1) /\ recorder[1].state = "recording" =>
           recorder[1].clone = "live" /\ recorder'[1].clone = "null" ]_vars
  /\ [](recorder[1].clone = "live" <=> recorder[1].state = "recording")

\* C22 as claimed, with the release after the end event: the clone is held
\* until the end event of the recording was dispatched
C22_StopFlushesThenReleases ==
  /\ StopFlushes
  /\ [](recorder[1].clone = "live" <=>
          \/ recorder[1].state = "recording"
          \/ Cardinality(EndEvents(recorder[1].events)) < recorder[1].nStarts)

\* C22 witness: a recorder was started and stopped, and it emitted the
\* bytes of two blocks and then the end event; its clone is released
C22_Witness ==
  /\ recorder[1].nStarts = 1
  /\ recorder[1].state = "inactive"
  /\ recorder[1].clone = "null"
  /\ recorder[1].nBlocks = 2
  /\ recorder[1].cmdQ = << >>
  /\ recorder[1].outQ = << >>
  /\ Len(recorder[1].events) >= 2
  /\ Len(EventBytes(recorder[1].events)) = 8
  /\ recorder[1].events[Len(recorder[1].events)] = EndPosted

\* the value that the step has stored for the sample it encoded
StoredValue ==
  LET bytes == recorder'[1].buffers[Len(recorder'[1].buffers)].bytes
  IN LittleEndianValue(bytes[1], bytes[2])

\* the step has appended a chunk of two bytes
StoredTwoBytes ==
  LET new == recorder'[1].buffers
  IN /\ Len(new) = Len(recorder[1].buffers) + 1
     /\ Len(new[Len(new)].bytes) = 2
     /\ \A k \in 1 .. 2 : new[Len(new)].bytes[k] \in 0 .. 255

\* C23, with the rounding of the code: for every amplitude s in [-1, 1]
\* encode() stores, low byte first, the 16-bit value
\* clamp(floor(s * 32768), -32768, 32767); the value lies in
\* -32768 .. 32767, is not above s * 32768 and is less than 1 below it,
\* except for s = 1, which is clamped to 32767.
C23_FloorEncoding ==
  [][ \A num \in Amplitudes :
        EncoderEncodeSample(1, num) =>
          /\ StoredTwoBytes
          /\ StoredValue \in -32768 .. 32767
          /\ IF num = AmplitudeDenominator
             THEN StoredValue = 32767
             ELSE 4 * StoredValue <= num /\ num < 4 * StoredValue + 4 ]_vars

\* C23 as claimed, with rounding to the nearest integer, whichever way a
\* tie goes: the value stored is at most one half away from s * 32768,
\* except where it is clamped to 32767
C23_RoundEncoding ==
  [][ \A num \in Amplitudes :
        EncoderEncodeSample(1, num) =>
          /\ StoredTwoBytes
          /\ StoredValue \in -32768 .. 32767
          /\ IF num >= AmplitudeDenominator - 2
             THEN StoredValue = 32767
             ELSE /\ 4 * StoredValue - num <= 2
                  /\ num - 4 * StoredValue <= 2 ]_vars

\* C23 witness: samples between -1 / 32768 and 0, and between 0 and
\* 1 / 32768, are stored as -1 and 0, and the amplitude 1 as 32767
C23_Witness ==
  /\ Len(recorder[1].buffers) = 3
  /\ recorder[1].buffers[1].bytes = << 255, 255 >>
  /\ recorder[1].buffers[2].bytes = << 0, 0 >>
  /\ recorder[1].buffers[3].bytes = << 255, 127 >>

\* the final words of words, in their order
FinalWords(words) == SelectSeq(words, LAMBDA w : w.is_final)

\* the words of a message: its final words and then its non-final words
MessageWords(response) ==
  [ i \in 1 .. Len(response.fw) + Len(response.nfw) |->
      LET final == i <= Len(response.fw)
          w == IF final THEN response.fw[i]
               ELSE response.nfw[i - Len(response.fw)]
      IN [ text |-> w.t, start_ms |-> w.s, duration_ms |-> w.d,
           speaker |-> w.spk, is_final |-> final ] ]

\* the speakers that a message names
MessageSpeakers(response) ==
  IF ~response.hasSpks THEN << >>
  ELSE [ k \in { response.spks[i].spk : i \in 1 .. Len(response.spks) } |->
           LET last == CHOOSE i \in 1 .. Len(response.spks) :
                         /\ response.spks[i].spk = k
                         /\ \A j \in (i + 1) .. Len(response.spks) :
                              response.spks[j].spk # k
           IN [ speaker |-> k, name |-> response.spks[last].nm ] ]

\* C24: the Result starts empty and only an accepted message changes it;
\* after an accepted message the words are the final words that the Result
\* held, then the final words of the message, then its non-final words, and
\* the metrics and the speakers are those of the message, with no speakers
\* for a message that names none.  So after the messages m1 .. mk the words
\* are the finals of m1, ..., of mk and then the non-finals of mk alone: the
\* non-final words are a tail after all final words.
C24_ResultOfMessages ==
  /\ [][ \A s \in Sessions :
           /\ \A response \in ResultResponses :
                OnWebSocketMessage(s, response, MaxMerges)
                  /\ state[s] \in MessageStates =>
                  /\ result'[s].words =
                       FinalWords(result[s].words) \o MessageWords(response)
                  /\ result'[s].final_proc_time_ms = response.fpt
                  /\ result'[s].total_proc_time_ms = response.tpt
                  /\ result'[s].speakers = MessageSpeakers(response)
           /\ result'[s] # result[s] =>
                /\ state[s] \in MessageStates
                /\ \E response \in ResultResponses :
                     OnWebSocketMessage(s, response, MaxMerges) ]_vars
  /\ [](\A s \in Sessions :
          /\ socket[s].received = 0 => result[s] = initialResult
          /\ \A i, j \in 1 .. Len(result[s].words) :
               i < j /\ result[s].words[j].is_final =>
                 result[s].words[i].is_final)

\* C24 witness: after three messages the Result holds the final word of the
\* first, the non-final word, the metrics and the speaker of the third, and
\* no non-final word of the first or the second.
C24_Witness ==
  \E s \in Sessions :
    /\ socket[s].received = 3
    /\ Len(result[s].words) = 2
    /\ result[s].words[1].is_final /\ result[s].words[1].text = "a"
    /\ ~result[s].words[2].is_final /\ result[s].words[2].text = "c"
    /\ result[s].final_proc_time_ms = 3
    /\ result[s].total_proc_time_ms = 4
    /\ DOMAIN result[s].speakers = { 1 }
    /\ result[s].speakers[1].name = "ann"

\* the session s holds no resource and has asked for none after the step
NothingAcquired(s) ==
  /\ stream'[s] = "null"
  /\ mediaRecorder'[s] = "null"
  /\ webSocket'[s] = "null"
  /\ queuedMessages'[s] = NullQueue
  /\ tracks'[s] = "live" => tracks[s] = "live"
  /\ gum'[s] = "pending" => gum[s] = "pending"
  /\ recorder'[s].state # "recording"
  /\ recorder'[s].worker # "alive"
  /\ ~recorder'[s].slicing
  /\ recorder'[s].cmdQ = << >>
  /\ socket'[s].readyState \in { socket[s].readyState, "closed" }

\* C25: a session in Finished, Error or Canceled stays in that state; no
\* step invokes one of its callbacks, sends a message on its transport,
\* changes its Result or acquires a resource for it, whichever call or
\* event of capture, transport, timer or worker comes, also one that was
\* under way when the session ended.
C25_FailStop ==
  [][ \A s \in Sessions :
        state[s] \in TerminalStates =>
          /\ state'[s] = state[s]
          /\ calls'[s] = calls[s]
          /\ errorArgs'[s] = errorArgs[s]
          /\ socket'[s].sent = socket[s].sent
          /\ result'[s] = result[s]
          /\ NothingAcquired(s) ]_vars

\* C25 witness: the capture was granted to a session that stop() had
\* already finished, with all callbacks registered: only the finished
\* callback was invoked, once, and the stream is released.
C25_Witness ==
  \E s \in Sessions :
    /\ state[s] = "Finished"
    /\ \A f \in { "onStarted", "onPartialResult", "onFinished", "onError" } :
         config[s][f] # "null"
    /\ calls[s] = [ NoCalls EXCEPT !.onFinished = 1 ]
    /\ gum[s] = "settled"
    /\ tracks[s] = "stopped"
    /\ stream[s] = "null"
    /\ socket[s] = NoSocket

====
